---- MODULE Spec2Model ----
(***************************************************************************)
(* Layered configuration resolution: ConfigurationModel (value tree plus   *)
(* override sections, merge, override projection), the Configuration       *)
(* consolidator with its caches, toData/parse, and ConfigurationChangeEvent.*)
(*                                                                         *)
(* Representation.  A configuration key is the sequence of its characters  *)
(* ("a.b" is <<"a", ".", "b">>), so that split('.') and the marker string  *)
(* of the change event are computed, not assumed.  A JSON value is a       *)
(* tagged record: [scalar |-> v], [object |-> f] with f a function from    *)
(* property names (character sequences) to values, or Undefined.           *)
(***************************************************************************)
EXTENDS Integers, Sequences, FiniteSets, TLC

VARIABLES
    defaultConfiguration,               \* Configuration._defaultConfiguration
    policyConfiguration,                \* Configuration._policyConfiguration
    applicationConfiguration,           \* Configuration._applicationConfiguration
    localUserConfiguration,             \* Configuration._localUserConfiguration
    remoteUserConfiguration,            \* Configuration._remoteUserConfiguration
    workspaceConfiguration,             \* Configuration._workspaceConfiguration
    folderConfigurations,               \* Configuration._folderConfigurations
    memoryConfiguration,                \* Configuration._memoryConfiguration
    memoryConfigurationByResource,      \* Configuration._memoryConfigurationByResource
    workspaceConsolidatedConfiguration, \* Configuration._workspaceConsolidatedConfiguration
    foldersConsolidatedConfigurations,  \* Configuration._foldersConsolidatedConfigurations
    userConfiguration,                  \* Configuration._userConfiguration
    updates,                            \* number of updateValue calls so far
    operands,                           \* the Models L1..Ln handed to merge
    merged,                             \* the result of L1.merge(L2, ..., Ln)
    projection,                         \* [identifier, model]: merged.override(identifier)
    change,                             \* ConfigurationChangeEvent.change: [keys, overrides]
    affectsConfigStr,                   \* ConfigurationChangeEvent._affectsConfigStr
    configurationProperties,            \* ConfigurationRegistry.configurationProperties
    policyConfigurations,               \* ConfigurationRegistry.policyConfigurations
    excludedConfigurationProperties,    \* ConfigurationRegistry.excludedConfigurationProperties
    overrideIdentifiers,                \* ConfigurationRegistry.overrideIdentifiers
    configurationDefaultsOverrides,     \* ConfigurationRegistry.configurationDefaultsOverrides
    submitted,                          \* the argument of the last registration call
    nodes,                              \* the nodes of the last registerConfigurations call, as it left them
    fired,                              \* onDidUpdateConfiguration events fired by the last call
    defaultConfigurationModel,          \* DefaultConfiguration._configurationModel
    defaultOverrides,                   \* what DefaultConfiguration.getConfigurationDefaultOverrides() returns
    reloaded,                           \* DefaultConfiguration.reload() has run
    parser,                             \* the ConfigurationModelParser after parseRaw(raw, options)
    mergedParsed,                       \* a Model merged from the parsed Model and another
    editedModel,                        \* a ConfigurationModel under setValue and removeValue
    edits,                              \* number of setValue and removeValue calls so far
    heap,                               \* the objects and arrays the Models below are made of, by address
    heapOperands,                       \* the Models M1, M2 handed to merge
    heapMerged,                         \* M1.merge(M2)
    heapProjection,                     \* [identifier, model]: M1.override(identifier)
    heapEdits,                          \* number of setValue and removeValue calls on these Models
    heapFrozen,                         \* the addresses of the objects that have been frozen
    heapInspected                       \* [target, section]: the inspect(section) results read so far

confVars == <<defaultConfiguration, policyConfiguration, applicationConfiguration,
              localUserConfiguration, remoteUserConfiguration, workspaceConfiguration,
              folderConfigurations, memoryConfiguration, memoryConfigurationByResource,
              workspaceConsolidatedConfiguration, foldersConsolidatedConfigurations,
              userConfiguration, updates>>
mergeVars == <<operands, merged, projection>>
eventVars == <<change, affectsConfigStr>>
registryVars == <<configurationProperties, policyConfigurations, excludedConfigurationProperties,
                  overrideIdentifiers, configurationDefaultsOverrides, submitted, nodes, fired, defaultConfigurationModel,
                  defaultOverrides, reloaded>>
parserVars == <<parser, mergedParsed>>
editVars == <<editedModel, edits>>
heapVars == <<heap, heapOperands, heapMerged, heapProjection, heapEdits, heapFrozen, heapInspected>>
vars == <<confVars, mergeVars, eventVars, registryVars, parserVars, editVars, heapVars>>

----------------------------------------------------------------------------
(* Bounds *)

MaxUpdates == 2
MaxOperands == 3
MaxChangeKeys == 3
MaxEdits == 4
MaxHeapEdits == 2

----------------------------------------------------------------------------
(* JSON values *)

Undefined == [undefined |-> TRUE]
Null == [null |-> TRUE]
Scalar(v) == [scalar |-> v]
Object(f) == [object |-> f]
EmptyObject == <<>>

isObject(obj) == "object" \in DOMAIN obj

\* Keys used by the model, as character sequences.
kA == <<"a">>
kB == <<"b">>
kC == <<"c">>
kD == <<"d">>
kE == <<"e">>
kAB == <<"a", ".", "b">>
kAD == <<"a", ".", "d">>
kABE == <<"a", ".", "b", ".", "e">>
kABD == <<"a", ".", "b", ".", "d">>
kTS == <<"[", "t", "s", "]">>
kPY == <<"[", "p", "y", "]">>
kTSPY == <<"[", "t", "s", "]", "[", "p", "y", "]">>
idTS == <<"t", "s">>
idPY == <<"p", "y">>
idJS == <<"j", "s">>

\* s.split(sep)
RECURSIVE split(_, _)
split(s, sep) ==
    IF \A i \in 1..Len(s) : s[i] # sep
        THEN <<s>>
        ELSE LET i == CHOOSE j \in 1..Len(s) : s[j] = sep /\ \A h \in 1..(j - 1) : s[h] # sep
             IN  <<SubSeq(s, 1, i - 1)>> \o split(SubSeq(s, i + 1, Len(s)), sep)

indexOf(seq, x) ==
    IF \E i \in 1..Len(seq) : seq[i] = x
        THEN CHOOSE i \in 1..Len(seq) : seq[i] = x /\ \A h \in 1..(i - 1) : seq[h] # x
        ELSE 0

RECURSIVE distinct(_)
distinct(seq) ==
    IF seq = <<>> THEN <<>>
    ELSE LET front == distinct(SubSeq(seq, 1, Len(seq) - 1))
             last == seq[Len(seq)]
         IN  IF indexOf(front, last) # 0 THEN front ELSE Append(front, last)

----------------------------------------------------------------------------
(* Value trees: getConfigurationValue, addToValueTree, removeFromValueTree, *)
(* toValuesTree of configuration.ts.                                       *)

Ext(f, k, v) == [x \in (DOMAIN f) \cup {k} |-> IF x = k THEN v ELSE f[x]]
Del(f, k) == [x \in (DOMAIN f) \ {k} |-> f[x]]

RECURSIVE accessSetting(_, _)
accessSetting(current, path) ==
    IF path = <<>> THEN current
    ELSE IF ~isObject(current) THEN Undefined
    ELSE IF Head(path) \in DOMAIN current.object
        THEN accessSetting(current.object[Head(path)], Tail(path))
        ELSE Undefined

getConfigurationValue(config, settingPath) ==
    accessSetting(Object(config), split(settingPath, "."))

\* A segment that holds a non-object is overwritten by the later write.
RECURSIVE addSegments(_, _, _)
addSegments(tree, segments, value) ==
    IF Len(segments) = 1
        THEN Ext(tree, segments[1], value)
        ELSE LET s == Head(segments)
                 child == IF s \in DOMAIN tree /\ isObject(tree[s]) THEN tree[s].object ELSE EmptyObject
             IN  Ext(tree, s, Object(addSegments(child, Tail(segments), value)))

addToValueTree(settingsTreeRoot, key, value) ==
    addSegments(settingsTreeRoot, split(key, "."), value)

RECURSIVE doRemoveFromValueTree(_, _)
doRemoveFromValueTree(valueTree, segments) ==
    LET first == Head(segments)
    IN  IF Len(segments) = 1 THEN Del(valueTree, first)
        ELSE IF first \in DOMAIN valueTree /\ isObject(valueTree[first])
            THEN LET value == doRemoveFromValueTree(valueTree[first].object, Tail(segments))
                 IN  IF DOMAIN value = {} THEN Del(valueTree, first)
                                          ELSE Ext(valueTree, first, Object(value))
            ELSE valueTree

removeFromValueTree(valueTree, key) ==
    doRemoveFromValueTree(valueTree, split(key, "."))

\* The properties are added one by one; the trees of this model hold no
\* conflicting pair of properties, so the order of addition is immaterial.
RECURSIVE toValuesTree(_)
toValuesTree(properties) ==
    IF DOMAIN properties = {} THEN EmptyObject
    ELSE LET key == CHOOSE k \in DOMAIN properties : TRUE
         IN  addToValueTree(toValuesTree(Del(properties, key)), key, properties[key])

----------------------------------------------------------------------------
(* configurationRegistry.ts: override-section keys *)

\* OVERRIDE_PROPERTY_REGEX = ^(\[([^\]]+)\])+$
RECURSIVE OVERRIDE_PROPERTY_REGEX_test(_)
OVERRIDE_PROPERTY_REGEX_test(key) ==
    /\ Len(key) >= 3
    /\ key[1] = "["
    /\ LET j == indexOf(key, "]")
       IN  /\ j >= 3
           /\ \/ j = Len(key)
              \/ OVERRIDE_PROPERTY_REGEX_test(SubSeq(key, j + 1, Len(key)))

RECURSIVE trim(_)
trim(s) ==
    IF s = <<>> THEN s
    ELSE IF Head(s) = " " THEN trim(Tail(s))
    ELSE IF s[Len(s)] = " " THEN trim(SubSeq(s, 1, Len(s) - 1))
    ELSE s

RECURSIVE identifierMatches(_)
identifierMatches(key) ==
    IF key = <<>> THEN <<>>
    ELSE LET j == indexOf(key, "]")
             identifier == trim(SubSeq(key, 2, j - 1))
             rest == identifierMatches(SubSeq(key, j + 1, Len(key)))
         IN  IF identifier # <<>> THEN <<identifier>> \o rest ELSE rest

overrideIdentifiersFromKey(key) ==
    IF OVERRIDE_PROPERTY_REGEX_test(key) THEN distinct(identifierMatches(key)) ELSE <<>>

----------------------------------------------------------------------------
(* ConfigurationModel: a record [contents, keys, overrides]; an override   *)
(* section is a record [identifiers, keys, contents].                      *)

ConfigurationModel(contents, keys, overrides) ==
    [contents |-> contents, keys |-> keys, overrides |-> overrides]

createEmptyModel == ConfigurationModel(EmptyObject, <<>>, <<>>)

isEmpty(model) ==
    Len(model.keys) = 0 /\ DOMAIN model.contents = {} /\ Len(model.overrides) = 0

\* ConfigurationModel.getValue(section)
modelGetValue(model, section) ==
    IF section # <<>> THEN getConfigurationValue(model.contents, section)
                      ELSE Object(model.contents)

\* A later scalar does not replace an earlier value: the plausible slip of
\* writing only the keys that are new.
RECURSIVE mergeContentsKeepFirst(_, _)
mergeContentsKeepFirst(source, target) ==
    [key \in (DOMAIN source) \cup (DOMAIN target) |->
        IF key \notin DOMAIN target THEN source[key]
        ELSE IF key \in DOMAIN source
            THEN IF isObject(source[key]) /\ isObject(target[key])
                    THEN Object(mergeContentsKeepFirst(source[key].object, target[key].object))
                    ELSE source[key]
            ELSE target[key]]

\* Objects are replaced wholesale instead of merged leaf by leaf.
mergeContentsShallow(source, target) ==
    [key \in (DOMAIN source) \cup (DOMAIN target) |->
        IF key \in DOMAIN target THEN target[key] ELSE source[key]]

\* ConfigurationModel.mergeContents(source, target): the new value of source.
RECURSIVE mergeContents(_, _)
mergeContents(source, target) ==
    [key \in (DOMAIN source) \cup (DOMAIN target) |->
        IF key \notin DOMAIN target THEN source[key]
        ELSE IF key \in DOMAIN source /\ isObject(source[key]) /\ isObject(target[key])
            THEN Object(mergeContents(source[key].object, target[key].object))
            ELSE target[key]]

findOverride(overrides, identifiers) ==
    IF \E i \in 1..Len(overrides) : overrides[i].identifiers = identifiers
        THEN CHOOSE i \in 1..Len(overrides) :
                /\ overrides[i].identifiers = identifiers
                /\ \A h \in 1..(i - 1) : overrides[h].identifiers # identifiers
        ELSE 0

\* A section the Model has already is kept as it is.
mergeOverrideKeepingSection(overrides, otherOverride) ==
    IF findOverride(overrides, otherOverride.identifiers) # 0
        THEN overrides
        ELSE Append(overrides, otherOverride)

mergeOverride(overrides, otherOverride) ==
    LET index == findOverride(overrides, otherOverride.identifiers)
    IN  IF index # 0
            THEN [overrides EXCEPT ![index] =
                    [identifiers |-> @.identifiers,
                     keys |-> distinct(@.keys \o otherOverride.keys),
                     contents |-> mergeContents(@.contents, otherOverride.contents)]]
            ELSE Append(overrides, otherOverride)

RECURSIVE mergeOverrides(_, _)
mergeOverrides(overrides, otherOverrides) ==
    IF otherOverrides = <<>> THEN overrides
    ELSE mergeOverrides(mergeOverride(overrides, Head(otherOverrides)), Tail(otherOverrides))

\* Every key of the other Model is appended, also one already listed.
mergeKeysAppend(keys, otherKeys) == keys \o otherKeys

RECURSIVE mergeKeys(_, _)
mergeKeys(keys, otherKeys) ==
    IF otherKeys = <<>> THEN keys
    ELSE mergeKeys(IF indexOf(keys, Head(otherKeys)) = 0 THEN Append(keys, Head(otherKeys)) ELSE keys,
                   Tail(otherKeys))

\* One iteration of the loop over `others` in ConfigurationModel.merge.
mergeOther(acc, other) ==
    IF isEmpty(other) THEN acc
    ELSE ConfigurationModel(mergeContents(acc.contents, other.contents),
                            mergeKeys(acc.keys, other.keys),
                            mergeOverrides(acc.overrides, other.overrides))

\* ConfigurationModel.merge(...others)
RECURSIVE merge(_, _)
merge(this, others) ==
    IF others = <<>> THEN ConfigurationModel(this.contents, this.keys, this.overrides)
    ELSE merge(mergeOther(this, Head(others)), Tail(others))

\* The local helper mergeContents of getContentsForOverrideIdentifer.
\* contents and contentsToMerge are Null or Object(tree).
mergeInto(contents, contentsToMerge) ==
    IF contentsToMerge = Null THEN contents
    ELSE IF contents # Null THEN Object(mergeContents(contents.object, contentsToMerge.object))
    ELSE contentsToMerge

\* Every section is applied, whether or not it lists the identifier.
RECURSIVE scanOverridesAnyIdentifier(_, _, _, _)
scanOverridesAnyIdentifier(overrides, identifier, contentsForIdentifierOnly, contents) ==
    IF overrides = <<>> THEN mergeInto(contents, contentsForIdentifierOnly)
    ELSE LET override == Head(overrides)
         IN  IF override.identifiers = <<identifier>>
                THEN scanOverridesAnyIdentifier(Tail(overrides), identifier,
                                                Object(override.contents), contents)
             ELSE scanOverridesAnyIdentifier(Tail(overrides), identifier, contentsForIdentifierOnly,
                                             mergeInto(contents, Object(override.contents)))

RECURSIVE scanOverrides(_, _, _, _)
scanOverrides(overrides, identifier, contentsForIdentifierOnly, contents) ==
    IF overrides = <<>> THEN mergeInto(contents, contentsForIdentifierOnly)
    ELSE LET override == Head(overrides)
         IN  IF override.identifiers = <<identifier>>
                THEN scanOverrides(Tail(overrides), identifier, Object(override.contents), contents)
             ELSE IF indexOf(override.identifiers, identifier) # 0
                THEN scanOverrides(Tail(overrides), identifier, contentsForIdentifierOnly,
                                   mergeInto(contents, Object(override.contents)))
             ELSE scanOverrides(Tail(overrides), identifier, contentsForIdentifierOnly, contents)

\* ConfigurationModel.getContentsForOverrideIdentifer: Null or Object(tree)
getContentsForOverrideIdentifer(model, identifier) ==
    scanOverrides(model.overrides, identifier, Null, Null)

\* JavaScript truthiness of a value of the model
truthy(value) == value # Undefined /\ value # Scalar(0)

\* ConfigurationModel.createOverrideConfigurationModel(identifier)
createOverrideConfigurationModel(model, identifier) ==
    LET found == getContentsForOverrideIdentifer(model, identifier)
        overrideContents == IF found = Null THEN EmptyObject ELSE found.object
    IN  IF found = Null \/ DOMAIN overrideContents = {}
            THEN model
            ELSE ConfigurationModel(
                    [key \in (DOMAIN model.contents) \cup (DOMAIN overrideContents) |->
                        LET contentsForKey ==
                                IF key \in DOMAIN model.contents THEN model.contents[key] ELSE Undefined
                            overrideContentsForKey ==
                                IF key \in DOMAIN overrideContents THEN overrideContents[key] ELSE Undefined
                        IN  IF truthy(overrideContentsForKey)
                                THEN IF isObject(contentsForKey) /\ isObject(overrideContentsForKey)
                                        THEN Object(mergeContents(contentsForKey.object,
                                                                  overrideContentsForKey.object))
                                        ELSE overrideContentsForKey
                                ELSE contentsForKey],
                    model.keys, model.overrides)

\* ConfigurationModel.override(identifier); the per-identifier cache of an
\* immutable consolidated Model returns what it was filled with.
override(model, identifier) == createOverrideConfigurationModel(model, identifier)

\* ConfigurationModel.removeValue(key)
\* The early return for a key that is not among the keys is left out.
removeValueWithoutKeyTest(model, key) ==
    ConfigurationModel(removeFromValueTree(model.contents, key),
                       SelectSeq(model.keys, LAMBDA k : k # key),
                       model.overrides)

removeValue(model, key) ==
    LET index == indexOf(model.keys, key)
    IN  IF index = 0 THEN model
        ELSE ConfigurationModel(
                removeFromValueTree(model.contents, key),
                SubSeq(model.keys, 1, index - 1) \o SubSeq(model.keys, index + 1, Len(model.keys)),
                IF OVERRIDE_PROPERTY_REGEX_test(key)
                    THEN LET found == findOverride(model.overrides, overrideIdentifiersFromKey(key))
                             \* splice(-1, 1) removes the last element
                             at == IF found = 0 THEN Len(model.overrides) ELSE found
                         IN  SubSeq(model.overrides, 1, at - 1)
                                \o SubSeq(model.overrides, at + 1, Len(model.overrides))
                    ELSE model.overrides)

RECURSIVE enumerate(_)
enumerate(S) ==
    IF S = {} THEN <<>>
    ELSE LET k == CHOOSE x \in S : TRUE IN <<k>> \o enumerate(S \ {k})

\* Object.keys(value)
objectKeys(value) == IF isObject(value) THEN enumerate(DOMAIN value.object) ELSE <<>>

\* ConfigurationModel.setValue(key, value) = updateValue(key, value, false)
setValue(model, key, value) ==
    LET contents == addToValueTree(model.contents, key, value)
        keys == IF indexOf(model.keys, key) = 0 THEN Append(model.keys, key) ELSE model.keys
    IN  IF OVERRIDE_PROPERTY_REGEX_test(key)
            THEN LET identifiers == overrideIdentifiersFromKey(key)
                     newOverride == [identifiers |-> identifiers,
                                     keys |-> objectKeys(contents[key]),
                                     contents |-> IF isObject(contents[key])
                                                     THEN toValuesTree(contents[key].object)
                                                     ELSE EmptyObject]
                     index == findOverride(model.overrides, identifiers)
                 IN  ConfigurationModel(contents, keys,
                        IF index # 0 THEN [model.overrides EXCEPT ![index] = newOverride]
                                     ELSE Append(model.overrides, newOverride))
            ELSE ConfigurationModel(contents, keys, model.overrides)

----------------------------------------------------------------------------
(* Models handed to the operations.  Shape(n, v) is what the parser makes  *)
(* of a raw document with the listed keys, every value derived from v so   *)
(* that the Model a resolved value came from can be told.                  *)

NoOverrides == <<>>

Shape(n, v) ==
    CASE n = 1 -> createEmptyModel
      [] n = 2 -> ConfigurationModel(kC :> Scalar(v), <<kC>>, NoOverrides)
      [] n = 3 -> ConfigurationModel(kA :> Scalar(v), <<kA>>, NoOverrides)
      [] n = 4 -> ConfigurationModel(kA :> Object(kB :> Scalar(v)), <<kAB>>, NoOverrides)
      [] n = 5 -> ConfigurationModel(kA :> Object(kD :> Scalar(v)), <<kAD>>, NoOverrides)
      [] n = 6 -> ConfigurationModel(
                    (kA :> Object((kB :> Scalar(v)) @@ (kD :> Scalar(v)))) @@ (kC :> Scalar(v)),
                    <<kAB, kAD, kC>>, NoOverrides)
      [] n = 7 -> ConfigurationModel(kA :> Object(kB :> Object(kE :> Scalar(v))), <<kABE>>, NoOverrides)
      [] n = 8 -> ConfigurationModel(
                    (kC :> Scalar(v)) @@ (kTS :> Object(kC :> Scalar(v + 10))),
                    <<kC, kTS>>,
                    <<[identifiers |-> <<idTS>>, keys |-> <<kC>>, contents |-> (kC :> Scalar(v + 10))]>>)
      [] n = 9 -> ConfigurationModel(
                    kTS :> Object(kAB :> Scalar(v + 10)),
                    <<kTS>>,
                    <<[identifiers |-> <<idTS>>, keys |-> <<kAB>>,
                       contents |-> (kA :> Object(kB :> Scalar(v + 10)))]>>)
      [] n = 10 -> ConfigurationModel(kC :> Scalar(0), <<kC>>, NoOverrides)
      [] n = 11 -> ConfigurationModel(kA :> Object(kB :> Object(kD :> Scalar(v))),
                                      <<kABD>>, NoOverrides)
      [] n = 12 -> ConfigurationModel(
                    (kA :> Object((kB :> Scalar(v)) @@ (kD :> Scalar(v)))) @@ (kC :> Scalar(v))
                        @@ (kTS :> Object(kC :> Scalar(v + 10))),
                    <<kAB, kAD, kC, kTS>>,
                    <<[identifiers |-> <<idTS>>, keys |-> <<kC>>, contents |-> (kC :> Scalar(v + 10))]>>)

      [] n = 13 -> ConfigurationModel(
                    kTSPY :> Object((kC :> Scalar(v + 20)) @@ (kD :> Scalar(v + 20))),
                    <<kTSPY>>,
                    <<[identifiers |-> overrideIdentifiersFromKey(kTSPY), keys |-> <<kC, kD>>,
                       contents |-> ((kC :> Scalar(v + 20)) @@ (kD :> Scalar(v + 20)))]>>)
      [] n = 14 -> ConfigurationModel(
                    (kC :> Scalar(v)) @@ (kTS :> Object(kC :> Scalar(0))),
                    <<kC, kTS>>,
                    <<[identifiers |-> overrideIdentifiersFromKey(kTS), keys |-> <<kC>>,
                       contents |-> (kC :> Scalar(0))]>>)
      [] n = 15 -> ConfigurationModel(
                    (kC :> Scalar(v)) @@ (kPY :> Object(EmptyObject)),
                    <<kC, kPY>>,
                    <<[identifiers |-> overrideIdentifiersFromKey(kPY), keys |-> <<>>,
                       contents |-> EmptyObject]>>)
      [] n = 16 -> ConfigurationModel(
                    (kA :> Object((kB :> Scalar(v)) @@ (kD :> Scalar(v)))) @@ (kC :> Scalar(v))
                        @@ (kTS :> Object(kAB :> Scalar(v + 10))),
                    <<kAB, kAD, kC, kTS>>,
                    <<[identifiers |-> <<idTS>>, keys |-> <<kAB>>,
                       contents |-> (kA :> Object(kB :> Scalar(v + 10)))]>>)

MergeShapes == (1..9) \cup {11} \cup (13..15)

\* The identifiers a Model is projected on: "js" is listed by no section.
OverrideIdentifiers == {idTS, idPY, idJS}

\* The keys queried.
QueryKeys == {kA, kAB, kAD, kABE, kABD, kC}

----------------------------------------------------------------------------
(* L1.merge(L2, ..., Ln) *)

InitParser == parser = Null /\ mergedParsed = Null

InitEdit == editedModel = createEmptyModel /\ edits = 0

InitHeapIdle == heap = <<>> /\ heapOperands = <<>> /\ heapMerged = Null /\ heapProjection = Null /\ heapEdits = 0 /\ heapFrozen = {} /\ heapInspected = {}

InitMerge == operands = <<>> /\ merged = Null /\ projection = Null

AddOperand(n) ==
    /\ merged = Null
    /\ Len(operands) < MaxOperands
    /\ operands' = Append(operands, Shape(n, Len(operands) + 1))
    /\ UNCHANGED <<merged, projection, confVars, eventVars, registryVars, parserVars, editVars, heapVars>>

DoMerge ==
    /\ merged = Null
    /\ operands # <<>>
    /\ merged' = merge(Head(operands), Tail(operands))
    /\ UNCHANGED <<operands, projection, confVars, eventVars, registryVars, parserVars, editVars, heapVars>>

\* merged.override(identifier)
Override(identifier) ==
    /\ merged # Null
    /\ projection = Null
    /\ projection' = [identifier |-> identifier, model |-> override(merged, identifier)]
    /\ UNCHANGED <<operands, merged, confVars, eventVars, registryVars, parserVars, editVars, heapVars>>

----------------------------------------------------------------------------
(* Configuration: a record of the fields of the class.  Resources and      *)
(* folders are names; NoResource and NoWorkspace stand for undefined.      *)

NoResource == "none"
NoFolder == "none"
NoWorkspace == "none"
NoIdentifier == <<>>
Resources == {"r1", "r2"}
Folders == {"f1"}
Workspaces == {"ws"}
Identifiers == {idTS}

\* Workspace.getFolder(resource): folder f1 owns r1, no folder owns r2.
getFolder(workspace, resource) == IF resource = "r1" THEN "f1" ELSE NoFolder

\* new Configuration(...): both caches empty, _userConfiguration null
Configuration(defaults, policy, application, localUser, remoteUser, workspace, folders, memory, memoryByResource) ==
    [defaultConfiguration |-> defaults,
     policyConfiguration |-> policy,
     applicationConfiguration |-> application,
     localUserConfiguration |-> localUser,
     remoteUserConfiguration |-> remoteUser,
     workspaceConfiguration |-> workspace,
     folderConfigurations |-> folders,
     memoryConfiguration |-> memory,
     memoryConfigurationByResource |-> memoryByResource,
     workspaceConsolidatedConfiguration |-> Null,
     foldersConsolidatedConfigurations |-> <<>>,
     userConfiguration |-> Null]

\* The Configuration object of the current state.
this ==
    [defaultConfiguration |-> defaultConfiguration,
     policyConfiguration |-> policyConfiguration,
     applicationConfiguration |-> applicationConfiguration,
     localUserConfiguration |-> localUserConfiguration,
     remoteUserConfiguration |-> remoteUserConfiguration,
     workspaceConfiguration |-> workspaceConfiguration,
     folderConfigurations |-> folderConfigurations,
     memoryConfiguration |-> memoryConfiguration,
     memoryConfigurationByResource |-> memoryConfigurationByResource,
     workspaceConsolidatedConfiguration |-> workspaceConsolidatedConfiguration,
     foldersConsolidatedConfigurations |-> foldersConsolidatedConfigurations,
     userConfiguration |-> userConfiguration]

\* The remote Model is merged below the local Model.
getUserConfigurationRemoteBelow(c) ==
    IF c.userConfiguration # Null THEN c.userConfiguration
    ELSE IF isEmpty(c.remoteUserConfiguration) THEN c.localUserConfiguration
    ELSE merge(c.remoteUserConfiguration, <<c.localUserConfiguration>>)

\* get userConfiguration(): the value returned; it is also what the getter caches.
getUserConfiguration(c) ==
    IF c.userConfiguration # Null THEN c.userConfiguration
    ELSE IF isEmpty(c.remoteUserConfiguration) THEN c.localUserConfiguration
    ELSE merge(c.localUserConfiguration, <<c.remoteUserConfiguration>>)

\* The workspace Model is merged below the user Model.
consolidateWorkspaceBelowUser(c) ==
    merge(c.defaultConfiguration,
          <<c.applicationConfiguration, c.workspaceConfiguration, getUserConfiguration(c),
            c.memoryConfiguration>>)

\* The merge of getWorkspaceConsolidatedConfiguration when the cache is empty.
consolidateWorkspace(c) ==
    merge(c.defaultConfiguration,
          <<c.applicationConfiguration, getUserConfiguration(c), c.workspaceConfiguration,
            c.memoryConfiguration>>)

getWorkspaceConsolidatedConfiguration(c) ==
    IF c.workspaceConsolidatedConfiguration # Null
        THEN c.workspaceConsolidatedConfiguration
        ELSE consolidateWorkspace(c)

getFolderConsolidatedConfiguration(c, folder) ==
    IF folder \in DOMAIN c.foldersConsolidatedConfigurations
        THEN c.foldersConsolidatedConfigurations[folder]
        ELSE IF folder \in DOMAIN c.folderConfigurations
            THEN merge(getWorkspaceConsolidatedConfiguration(c), <<c.folderConfigurations[folder]>>)
            ELSE getWorkspaceConsolidatedConfiguration(c)

getConsolidatedConfigurationModelForResource(c, resource, workspace) ==
    IF workspace # NoWorkspace /\ resource # NoResource
        THEN LET root == getFolder(workspace, resource)
                 consolidateConfiguration ==
                    IF root # NoFolder THEN getFolderConsolidatedConfiguration(c, root)
                                       ELSE getWorkspaceConsolidatedConfiguration(c)
             IN  IF resource \in DOMAIN c.memoryConfigurationByResource
                    THEN merge(consolidateConfiguration, <<c.memoryConfigurationByResource[resource]>>)
                    ELSE consolidateConfiguration
        ELSE getWorkspaceConsolidatedConfiguration(c)

\* Policy is merged before the override projection instead of after it.
getConsolidatedPolicyBeforeOverride(c, section, resource, overrideIdentifier, workspace) ==
    LET forResource == getConsolidatedConfigurationModelForResource(c, resource, workspace)
        withPolicy == IF ~isEmpty(c.policyConfiguration)
                         /\ modelGetValue(c.policyConfiguration, section) # Undefined
                         THEN merge(forResource, <<c.policyConfiguration>>)
                         ELSE forResource
    IN  IF overrideIdentifier # NoIdentifier THEN override(withPolicy, overrideIdentifier)
                                             ELSE withPolicy

getConsolidatedConfigurationModel(c, section, resource, overrideIdentifier, workspace) ==
    LET forResource == getConsolidatedConfigurationModelForResource(c, resource, workspace)
        configurationModel == IF overrideIdentifier # NoIdentifier
                                 THEN override(forResource, overrideIdentifier)
                                 ELSE forResource
    IN  IF ~isEmpty(c.policyConfiguration)
           /\ modelGetValue(c.policyConfiguration, section) # Undefined
            THEN merge(configurationModel, <<c.policyConfiguration>>)
            ELSE configurationModel

\* Configuration.getValue(section, {resource, overrideIdentifier}, workspace): the value returned
getValue(c, section, resource, overrideIdentifier, workspace) ==
    modelGetValue(getConsolidatedConfigurationModel(c, section, resource, overrideIdentifier, workspace),
                  section)

\* The Configuration after getValue(section, {resource}, workspace): the caches it fills.
afterGetValue(c, resource, workspace) ==
    LET root == IF workspace # NoWorkspace /\ resource # NoResource
                    THEN getFolder(workspace, resource) ELSE NoFolder
    IN  [c EXCEPT
            !.userConfiguration =
                IF c.workspaceConsolidatedConfiguration = Null THEN getUserConfiguration(c) ELSE @,
            !.workspaceConsolidatedConfiguration = getWorkspaceConsolidatedConfiguration(c),
            !.foldersConsolidatedConfigurations =
                IF /\ root # NoFolder
                   /\ root \notin DOMAIN @
                   /\ root \in DOMAIN c.folderConfigurations
                    THEN Ext(@, root, getFolderConsolidatedConfiguration(c, root))
                    ELSE @]

\* Every write goes to the global memory Model, whatever the resource.
afterUpdateValueGlobal(c, key, value, resource) ==
    LET updated == IF value = Undefined THEN removeValue(c.memoryConfiguration, key)
                                        ELSE setValue(c.memoryConfiguration, key, value)
    IN  [c EXCEPT !.memoryConfiguration = updated,
                  !.workspaceConsolidatedConfiguration = Null]

\* The Configuration after updateValue(key, value, {resource})
afterUpdateValue(c, key, value, resource) ==
    LET target ==
            IF resource # NoResource
                THEN IF resource \in DOMAIN c.memoryConfigurationByResource
                        THEN c.memoryConfigurationByResource[resource]
                        ELSE createEmptyModel
                ELSE c.memoryConfiguration
        updated == IF value = Undefined THEN removeValue(target, key)
                                        ELSE setValue(target, key, value)
    IN  IF resource # NoResource
            THEN [c EXCEPT !.memoryConfigurationByResource = Ext(@, resource, updated)]
            ELSE [c EXCEPT !.memoryConfiguration = updated,
                           !.workspaceConsolidatedConfiguration = Null]

\* The layer triples { contents, overrides, keys } of Configuration.toData()
toData(c) ==
    [defaults |-> c.defaultConfiguration,
     policy |-> c.policyConfiguration,
     application |-> c.applicationConfiguration,
     user |-> getUserConfiguration(c),
     workspace |-> c.workspaceConfiguration,
     folders |-> c.folderConfigurations]

\* Configuration.parse(data)
parse(data) ==
    Configuration(data.defaults, data.policy, data.application, data.user, createEmptyModel,
                  data.workspace, data.folders, createEmptyModel, <<>>)

----------------------------------------------------------------------------
(* ConfigurationChangeEvent *)

marker == "\n"

RECURSIVE overrideChangeKeys(_)
overrideChangeKeys(overrides) ==
    IF overrides = <<>> THEN <<>>
    ELSE Head(overrides)[2] \o overrideChangeKeys(Tail(overrides))

\* affectedKeys, a Set: the keys in the order they were first added
affectedKeys(c) == distinct(c.keys \o overrideChangeKeys(c.overrides))

RECURSIVE joinKeys(_)
joinKeys(keys) ==
    IF keys = <<>> THEN <<>>
    ELSE Head(keys) \o <<marker>> \o joinKeys(Tail(keys))

\* _affectsConfigStr as the constructor builds it
buildAffectsConfigStr(c) == <<marker>> \o joinKeys(affectedKeys(c))

\* String.indexOf, 1-based; 0 when the needle does not occur
strIndexOf(haystack, needle) ==
    LET occurs(i) == SubSeq(haystack, i, i + Len(needle) - 1) = needle
        places == {i \in 1..(Len(haystack) - Len(needle) + 1) : occurs(i)}
    IN  IF places = {} THEN 0 ELSE CHOOSE i \in places : \A j \in places : i <= j

\* affectsConfiguration up to the test of `overrides`
changedKeyTest(str, section) ==
    LET needle == <<marker>> \o section
        idx == strIndexOf(str, needle)
        pos == idx + Len(needle)
    IN  /\ idx # 0
        /\ pos <= Len(str)
        /\ str[pos] \in {marker, "."}

\* ConfigurationChangeEvent.previousConfiguration
previousConfiguration(previous) ==
    IF previous # Null THEN parse(previous.data) ELSE Null

\* affectsConfiguration(section, overrides); overrides is Null when not supplied
affectsConfiguration(str, previous, currentConfiguraiton, currentWorkspace, section, overrides) ==
    /\ changedKeyTest(str, section)
    /\ overrides # Null =>
          LET value1 == IF previousConfiguration(previous) # Null
                           THEN getValue(previousConfiguration(previous), section, overrides.resource,
                                         overrides.overrideIdentifier, previous.workspace)
                           ELSE Undefined
              value2 == getValue(currentConfiguraiton, section, overrides.resource,
                                 overrides.overrideIdentifier, currentWorkspace)
          IN  value1 # value2

EventKeys == {<<"e">>, <<"e", "X">>, <<"e", ".", "f">>, <<"f">>}
Sections == EventKeys \cup {<<"e", ".">>, <<"X">>}

changeSize(c) == Len(c.keys) + Len(overrideChangeKeys(c.overrides))

\* The string is empty until the event is constructed.
NotConstructed == <<>>

InitEvent == change = [keys |-> <<>>, overrides |-> <<>>] /\ affectsConfigStr = NotConstructed

AddChangedKey(key) ==
    /\ affectsConfigStr = NotConstructed
    /\ changeSize(change) < MaxChangeKeys
    /\ change' = [change EXCEPT !.keys = Append(@, key)]
    /\ UNCHANGED <<affectsConfigStr, confVars, mergeVars, registryVars, parserVars, editVars, heapVars>>

AddChangedOverrideKey(identifier, key) ==
    /\ affectsConfigStr = NotConstructed
    /\ changeSize(change) < MaxChangeKeys
    /\ change' = [change EXCEPT !.overrides = Append(@, <<identifier, <<key>>>>)]
    /\ UNCHANGED <<affectsConfigStr, confVars, mergeVars, registryVars, parserVars, editVars, heapVars>>

\* new ConfigurationChangeEvent(change, ...)
ConstructEvent ==
    /\ affectsConfigStr = NotConstructed
    /\ affectsConfigStr' = buildAffectsConfigStr(change)
    /\ UNCHANGED <<change, confVars, mergeVars, registryVars, parserVars, editVars, heapVars>>

----------------------------------------------------------------------------
(* ConfigurationRegistry.  A property schema is a record; a dictionary of  *)
(* schemas is the sequence of them in insertion order (the order of        *)
(* `for key in properties` and of Object.keys).  Absent stands for a field *)
(* that is not set.  The JSON-schema contributions (updateSchema) and the  *)
(* set of override identifiers are left out: no operation modelled here    *)
(* reads them.                                                             *)

Absent == "undefined"

hasProperty(properties, key) == \E i \in 1..Len(properties) : properties[i].key = key

getProperty(properties, key) ==
    properties[CHOOSE i \in 1..Len(properties) : properties[i].key = key]

\* properties[key] = schema
setProperty(properties, key, schema) ==
    IF hasProperty(properties, key)
        THEN [i \in 1..Len(properties) |->
                IF properties[i].key = key THEN schema ELSE properties[i]]
        ELSE Append(properties, schema)

\* Object.keys(properties)
propertyKeys(properties) == [i \in 1..Len(properties) |-> properties[i].key]

\* The dictionaries of the registry and the set of the registered override
\* identifiers as one value.
Registry(properties, policies, excluded, identifiers, defaultsOverrides) ==
    [configurationProperties |-> properties,
     policyConfigurations |-> policies,
     excludedConfigurationProperties |-> excluded,
     overrideIdentifiers |-> identifiers,
     configurationDefaultsOverrides |-> defaultsOverrides]

\* The registry of the current state.
configurationRegistry ==
    Registry(configurationProperties, policyConfigurations, excludedConfigurationProperties,
             overrideIdentifiers, configurationDefaultsOverrides)

getDefaultValue(type) ==
    CASE type = "number" -> Scalar(0)
      [] type = "object" -> Object(EmptyObject)
      [] OTHER -> Null

\* The test for a key that is already registered is left out.
validatePropertyAllowingDuplicates(reg, property, schema) ==
    \/ trim(property) = <<>>
    \/ OVERRIDE_PROPERTY_REGEX_test(property)
    \/ /\ schema.policy # Absent
       /\ schema.policy \in DOMAIN reg.policyConfigurations

\* The test for an empty key is left out.
validatePropertyAllowingEmptyKey(reg, property, schema) ==
    \/ OVERRIDE_PROPERTY_REGEX_test(property)
    \/ hasProperty(reg.configurationProperties, property)
    \/ /\ schema.policy # Absent
       /\ schema.policy \in DOMAIN reg.policyConfigurations

\* The test for a policy name that is already claimed is left out.
validatePropertyIgnoringPolicy(reg, property, schema) ==
    \/ trim(property) = <<>>
    \/ OVERRIDE_PROPERTY_REGEX_test(property)
    \/ hasProperty(reg.configurationProperties, property)

\* validateProperty(property, schema) returns an error message (TRUE) or null (FALSE).
validateProperty(reg, property, schema) ==
    \/ trim(property) = <<>>
    \/ OVERRIDE_PROPERTY_REGEX_test(property)
    \/ hasProperty(reg.configurationProperties, property)
    \/ /\ schema.policy # Absent
       /\ schema.policy \in DOMAIN reg.policyConfigurations

\* configurationDefaultsOverrides.get(key)?.configurationDefaultOverrideValue:
\* [value, source] or Undefined.
defaultOverrideValue(reg, key) ==
    IF key \in DOMAIN reg.configurationDefaultsOverrides
        THEN reg.configurationDefaultsOverrides[key]
        ELSE Undefined

\* A ConfigurationDefaultValueSource: the IExtensionInfo of a contribution,
\* or undefined, and the Map from dotted sub-paths to IExtensionInfo.
Sourced(info) == [info |-> info]
SourceMap(entries) == [map |-> entries]

\* source instanceof Map
isSourceMap(source) == "map" \in DOMAIN source

\* configurationdefaultOverride
\*   && (!property.disallowConfigurationDefault || !configurationdefaultOverride.source)
\* A source that is a Map is an object, which is truthy also when empty.
overrideApplies(property, configurationdefaultOverride) ==
    /\ configurationdefaultOverride # Undefined
    /\ \/ ~property.disallowConfigurationDefault
       \/ configurationdefaultOverride.source = Sourced(Absent)

\* The defaultValue that updatePropertyDefaultValue computes.
defaultValueOf(property, configurationdefaultOverride) ==
    IF overrideApplies(property, configurationdefaultOverride)
            /\ configurationdefaultOverride.value # Undefined
        THEN configurationdefaultOverride.value
    ELSE IF property.defaultDefaultValue # Undefined
        THEN property.defaultDefaultValue
    ELSE getDefaultValue(property.type)

\* The defaultSource that updatePropertyDefaultValue computes.
defaultSourceOf(property, configurationdefaultOverride) ==
    IF overrideApplies(property, configurationdefaultOverride)
            /\ configurationdefaultOverride.value # Undefined
        THEN configurationdefaultOverride.source
        ELSE Sourced(Absent)

\* updatePropertyDefaultValue(key, property): the property as the call leaves it.
updatePropertyDefaultValue(reg, key, property) ==
    [property EXCEPT !.default = defaultValueOf(property, defaultOverrideValue(reg, key)),
                     !.defaultValueSource = defaultSourceOf(property, defaultOverrideValue(reg, key))]

\* property.source = extensionInfo; property.defaultDefaultValue = properties[key].default
withSource(property, extensionInfo) ==
    [property EXCEPT !.source = extensionInfo, !.defaultDefaultValue = property.default]

\* The "update scope" step of validateAndRegisterProperties.
withScope(property, restrictedProperties, scope) ==
    IF OVERRIDE_PROPERTY_REGEX_test(property.key)
        THEN [property EXCEPT !.scope = Absent]
        ELSE [property EXCEPT
                !.scope = IF @ = Absent THEN scope ELSE @,
                !.restricted = IF @ # Absent THEN @
                               ELSE IF indexOf(restrictedProperties, property.key) # 0 THEN "true"
                               ELSE "false"]

\* The "add to properties maps" step of validateAndRegisterProperties; acc.kept
\* are the properties the node keeps.
addToPropertiesMaps(acc, property) ==
    IF property.included = "false"
        THEN [acc EXCEPT !.reg.excludedConfigurationProperties = setProperty(@, property.key, property)]
        ELSE [acc EXCEPT
                !.reg.configurationProperties = setProperty(@, property.key, property),
                !.reg.policyConfigurations =
                    IF property.policy # Absent THEN Ext(@, property.policy, property.key) ELSE @,
                !.kept = Append(@, property),
                !.bucket = @ \cup {property.key}]

\* One iteration of the loop over the properties of a node in
\* validateAndRegisterProperties.
registerProperty(acc, property, validate, extensionInfo, restrictedProperties, scope) ==
    IF validate /\ validateProperty(acc.reg, property.key, property)
        THEN acc
        ELSE addToPropertiesMaps(acc,
                withScope(updatePropertyDefaultValue(acc.reg, property.key,
                                                     withSource(property, extensionInfo)),
                          restrictedProperties, scope))

RECURSIVE registerProperties(_, _, _, _, _, _)
registerProperties(acc, properties, validate, extensionInfo, restrictedProperties, scope) ==
    IF properties = <<>> THEN acc
    ELSE registerProperties(
            registerProperty(acc, Head(properties), validate, extensionInfo, restrictedProperties, scope),
            Tail(properties), validate, extensionInfo, restrictedProperties, scope)

\* The scope of the node itself is not looked at.
scopeOfEnclosing(configuration, scope) == scope

\* scope = isUndefinedOrNull(configuration.scope) ? scope : configuration.scope
scopeOf(configuration, scope) == IF configuration.scope = Absent THEN scope ELSE configuration.scope

\* What the registration of one more node adds to the nodes done so far.
appendNode(acc, done) ==
    [reg |-> done.reg, nodes |-> Append(acc.nodes, done.node), bucket |-> done.bucket]

\* The node with the properties and the sub-nodes as registration leaves them.
nodeAfter(configuration, own, subs) ==
    [reg |-> subs.reg,
     node |-> [configuration EXCEPT !.properties = own.kept, !.allOf = subs.nodes],
     bucket |-> subs.bucket]

\* validateAndRegisterProperties(configuration, validate, extensionInfo,
\* restrictedProperties, scope, bucket): [reg, node, bucket], node being the
\* configuration as the call leaves it.
RECURSIVE validateAndRegisterProperties(_, _, _, _, _, _, _)
RECURSIVE registerSubNodes(_, _, _, _, _, _)
RECURSIVE registerAllOf(_, _, _, _, _, _)
validateAndRegisterProperties(reg, configuration, validate, extensionInfo, restrictedProperties, scope, bucket) ==
    registerAllOf(configuration,
                  registerProperties([reg |-> reg, kept |-> <<>>, bucket |-> bucket],
                                     configuration.properties, validate, extensionInfo,
                                     restrictedProperties, scopeOf(configuration, scope)),
                  validate, extensionInfo, restrictedProperties, scopeOf(configuration, scope))

\* The second half of validateAndRegisterProperties: the sub-nodes.
registerAllOf(configuration, own, validate, extensionInfo, restrictedProperties, scope) ==
    nodeAfter(configuration, own,
              registerSubNodes([reg |-> own.reg, nodes |-> <<>>, bucket |-> own.bucket],
                               configuration.allOf, validate, extensionInfo,
                               restrictedProperties, scope))

\* The loop over configuration.allOf
registerSubNodes(acc, subNodes, validate, extensionInfo, restrictedProperties, scope) ==
    IF subNodes = <<>> THEN acc
    ELSE registerSubNodes(
            appendNode(acc, validateAndRegisterProperties(acc.reg, Head(subNodes), validate,
                                                          extensionInfo, restrictedProperties,
                                                          scope, acc.bucket)),
            Tail(subNodes), validate, extensionInfo, restrictedProperties, scope)

\* doRegisterConfigurations(configurations, validate, bucket)
RECURSIVE doRegisterConfigurations(_, _, _)
doRegisterConfigurations(acc, configurations, validate) ==
    IF configurations = <<>> THEN acc
    ELSE doRegisterConfigurations(
            appendNode(acc, validateAndRegisterProperties(acc.reg, Head(configurations), validate,
                                                          Head(configurations).extensionInfo,
                                                          Head(configurations).restrictedProperties,
                                                          "WINDOW", acc.bucket)),
            Tail(configurations), validate)

\* What onDidUpdateConfiguration hands to a listener, with the registry the
\* listener finds when it is called.
Notification(properties, defaultsOverrides, reg) ==
    [properties |-> properties, defaultsOverrides |-> defaultsOverrides, observed |-> reg]

\* The event fired after one node, added to what a call has done so far.
fireAfterNode(acc, done) ==
    [reg |-> done.reg, nodes |-> acc.nodes \o done.nodes,
     fired |-> Append(acc.fired, Notification(done.bucket, FALSE, done.reg))]

RECURSIVE fireEachNode(_, _, _)
fireEachNode(acc, configurations, validate) ==
    IF configurations = <<>> THEN acc
    ELSE fireEachNode(
            fireAfterNode(acc, doRegisterConfigurations([reg |-> acc.reg, nodes |-> <<>>, bucket |-> {}],
                                                        <<Head(configurations)>>, validate)),
            Tail(configurations), validate)

\* The event is fired after each node instead of once after the batch.
registerConfigurationsFiringEachNode(reg, configurations, validate) ==
    fireEachNode([reg |-> reg, nodes |-> <<>>, fired |-> <<>>], configurations, validate)

\* this._onDidUpdateConfiguration.fire({ properties })
fireOnce(done, defaultsOverrides) ==
    [reg |-> done.reg, nodes |-> done.nodes,
     fired |-> <<Notification(done.bucket, defaultsOverrides, done.reg)>>]

\* registerConfigurations(configurations, validate): [reg, nodes, fired]
registerConfigurations(reg, configurations, validate) ==
    fireOnce(doRegisterConfigurations([reg |-> reg, nodes |-> <<>>, bucket |-> {}],
                                      configurations, validate),
             FALSE)

\* { ...a, ...b }
spread(a, b) == [k \in (DOMAIN a) \cup (DOMAIN b) |-> IF k \in DOMAIN b THEN b[k] ELSE a[k]]

\* existing?.value || {} and the like: the fields of an object, none otherwise
fieldsOf(value) == IF isObject(value) THEN value.object ELSE EmptyObject

\* existingDefaultOverride?.value
valueOfOverride(existingDefaultOverride) ==
    IF existingDefaultOverride = Undefined THEN Undefined ELSE existingDefaultOverride.value

\* One iteration of the loop of mergeDefaultConfigurationsForOverrideIdentifier:
\* the new defaultValue[propertyKey]
mergedOverrideEntry(defaultValue, propertyKey, propertyDefaultValue) ==
    IF isObject(propertyDefaultValue)
        /\ (propertyKey \notin DOMAIN defaultValue \/ isObject(defaultValue[propertyKey]))
        THEN Object(spread(IF propertyKey \in DOMAIN defaultValue
                                THEN defaultValue[propertyKey].object ELSE EmptyObject,
                           propertyDefaultValue.object))
        ELSE propertyDefaultValue

\* `${propertyKey}.${objectKey}`
subPath(propertyKey, objectKey) == propertyKey \o <<".">> \o objectKey

\* existingDefaultOverride?.source ?? new Map()
sourceOfExisting(existingDefaultOverride) ==
    IF existingDefaultOverride = Undefined \/ existingDefaultOverride.source = Sourced(Absent)
        THEN SourceMap(<<>>)
        ELSE existingDefaultOverride.source

\* if (valueSource) for (const objectKey in value) source.set(`${propertyKey}.${objectKey}`, valueSource)
trackSources(entries, propertyKey, fields, valueSource) ==
    IF valueSource = Absent THEN entries
    ELSE [path \in (DOMAIN entries) \cup {subPath(propertyKey, objectKey) : objectKey \in DOMAIN fields} |->
            IF path \in {subPath(propertyKey, objectKey) : objectKey \in DOMAIN fields}
                THEN valueSource ELSE entries[path]]

\* One iteration of the loop of mergeDefaultConfigurationsForOverrideIdentifier:
\* the entries of source after it
overrideSourceEntry(entries, defaultValue, propertyKey, propertyDefaultValue, valueSource) ==
    IF isObject(propertyDefaultValue)
        /\ (propertyKey \notin DOMAIN defaultValue \/ isObject(defaultValue[propertyKey]))
        THEN trackSources(entries, propertyKey, propertyDefaultValue.object, valueSource)
    ELSE IF valueSource # Absent THEN Ext(entries, propertyKey, valueSource)
    ELSE Del(entries, propertyKey)

RECURSIVE overrideSources(_, _, _, _, _)
overrideSources(entries, defaultValue, propertyKeysLeft, configurationValueObject, valueSource) ==
    IF propertyKeysLeft = <<>> THEN entries
    ELSE overrideSources(overrideSourceEntry(entries, defaultValue, Head(propertyKeysLeft),
                                             configurationValueObject[Head(propertyKeysLeft)], valueSource),
                         defaultValue, Tail(propertyKeysLeft), configurationValueObject, valueSource)

\* mergeDefaultConfigurationsForOverrideIdentifier: the new [value, source],
\* undefined when the source of the existing override is not a Map.
mergeDefaultConfigurationsForOverrideIdentifier(overrideIdentifier, configurationValueObject, valueSource, existingDefaultOverride) ==
    IF ~isSourceMap(sourceOfExisting(existingDefaultOverride)) THEN Undefined
    ELSE [value |-> Object(
            [propertyKey \in (DOMAIN fieldsOf(valueOfOverride(existingDefaultOverride)))
                                \cup (DOMAIN configurationValueObject.object) |->
                IF propertyKey \in DOMAIN configurationValueObject.object
                    THEN mergedOverrideEntry(fieldsOf(valueOfOverride(existingDefaultOverride)),
                                             propertyKey, configurationValueObject.object[propertyKey])
                    ELSE fieldsOf(valueOfOverride(existingDefaultOverride))[propertyKey]]),
          source |-> SourceMap(overrideSources(sourceOfExisting(existingDefaultOverride).map,
                                               fieldsOf(valueOfOverride(existingDefaultOverride)),
                                               enumerate(DOMAIN configurationValueObject.object),
                                               configurationValueObject.object, valueSource))]

\* existingDefaultOverride?.value ?? property?.defaultDefaultValue
existingDefaultValueOf(reg, propertyKey, existingDefaultOverride) ==
    IF existingDefaultOverride # Undefined THEN existingDefaultOverride.value
    ELSE IF hasProperty(reg.configurationProperties, propertyKey)
        THEN getProperty(reg.configurationProperties, propertyKey).defaultDefaultValue
    ELSE Undefined

\* isObjectSetting of mergeDefaultConfigurationsForConfigurationProperty
isObjectSetting(reg, propertyKey, value, existingDefaultValue) ==
    /\ isObject(value)
    /\ IF hasProperty(reg.configurationProperties, propertyKey)
        THEN getProperty(reg.configurationProperties, propertyKey).type = "object"
        ELSE existingDefaultValue = Undefined \/ isObject(existingDefaultValue)

\* The branch of mergeDefaultConfigurationsForConfigurationProperty for an
\* object setting
mergeObjectSetting(propertyKey, value, valuesSource, existingDefaultValue, source) ==
    IF ~isSourceMap(source) THEN Undefined
    ELSE [value |-> Object(spread(fieldsOf(existingDefaultValue), value.object)),
          source |-> SourceMap(trackSources(source.map, propertyKey, value.object, valuesSource))]

\* mergeDefaultConfigurationsForConfigurationProperty: the new [value, source],
\* undefined when the source of the existing override is not a Map.
mergeDefaultConfigurationsForConfigurationProperty(reg, propertyKey, value, valuesSource, existingDefaultOverride) ==
    IF isObjectSetting(reg, propertyKey, value,
                       existingDefaultValueOf(reg, propertyKey, existingDefaultOverride))
        THEN mergeObjectSetting(propertyKey, value, valuesSource,
                                existingDefaultValueOf(reg, propertyKey, existingDefaultOverride),
                                sourceOfExisting(existingDefaultOverride))
        ELSE [value |-> value, source |-> Sourced(valuesSource)]

\* The property updateDefaultOverrideProperty registers for an override key.
updateDefaultOverrideProperty(key, newDefaultOverride, source) ==
    [key |-> key, type |-> "object", default |-> newDefaultOverride.value,
     scope |-> Absent, restricted |-> Absent, included |-> Absent, policy |-> Absent,
     source |-> source, defaultDefaultValue |-> newDefaultOverride.value,
     defaultValueSource |-> Sourced(source), disallowConfigurationDefault |-> FALSE]

\* The identifiers of the key are not added to overrideIdentifiers.
registerOverrideIdentifierDefaultWithoutIdentifiers(reg, key, newDefaultOverride, source) ==
    [reg EXCEPT
        !.configurationDefaultsOverrides = Ext(@, key, newDefaultOverride),
        !.configurationProperties =
            setProperty(@, key, updateDefaultOverrideProperty(key, newDefaultOverride, source))]

\* The branch of doRegisterDefaultConfigurations for an override-identifier
\* key.  The identifiers the call collects are added to overrideIdentifiers
\* here and not at the end of the call; nothing reads the set in between.
registerOverrideIdentifierDefault(reg, key, newDefaultOverride, source) ==
    [reg EXCEPT
        !.configurationDefaultsOverrides = Ext(@, key, newDefaultOverride),
        !.overrideIdentifiers = @ \cup {overrideIdentifiersFromKey(key)[i] :
                                            i \in 1..Len(overrideIdentifiersFromKey(key))},
        !.configurationProperties =
            setProperty(@, key, updateDefaultOverrideProperty(key, newDefaultOverride, source))]

\* if (property) this.updatePropertyDefaultValue(key, property)
updateRegisteredDefault(reg, key) ==
    IF hasProperty(reg.configurationProperties, key)
        THEN [reg EXCEPT !.configurationProperties =
                setProperty(@, key,
                    updatePropertyDefaultValue(reg, key, getProperty(reg.configurationProperties, key)))]
        ELSE reg

\* The branch of doRegisterDefaultConfigurations for a configuration property
registerPropertyDefault(reg, key, newDefaultOverride) ==
    updateRegisteredDefault([reg EXCEPT !.configurationDefaultsOverrides = Ext(@, key, newDefaultOverride)],
                            key)

\* The registry after the rest of one iteration: as it was when no new
\* default override was made (continue).
registerNewDefaultOverride(reg, key, newDefaultOverride, source) ==
    IF newDefaultOverride = Undefined THEN reg
    ELSE IF OVERRIDE_PROPERTY_REGEX_test(key)
        THEN registerOverrideIdentifierDefault(reg, key, newDefaultOverride, source)
        ELSE registerPropertyDefault(reg, key, newDefaultOverride)

\* One iteration of the loop over the keys of `overrides` in doRegisterDefaultConfigurations
registerDefaultOverride(acc, key, value, source) ==
    [reg |-> registerNewDefaultOverride(acc.reg, key,
                IF OVERRIDE_PROPERTY_REGEX_test(key)
                    THEN mergeDefaultConfigurationsForOverrideIdentifier(
                            key, value, source, defaultOverrideValue(acc.reg, key))
                    ELSE mergeDefaultConfigurationsForConfigurationProperty(
                            acc.reg, key, value, source, defaultOverrideValue(acc.reg, key)),
                source),
     nodes |-> <<>>,
     bucket |-> acc.bucket \cup {key}]

\* doRegisterDefaultConfigurations for one { overrides, source }; overrides
\* is the sequence of its <<key, value>> pairs.
RECURSIVE registerDefaultOverrides(_, _, _)
registerDefaultOverrides(acc, overrides, source) ==
    IF overrides = <<>> THEN acc
    ELSE registerDefaultOverrides(
            registerDefaultOverride(acc, Head(overrides)[1], Head(overrides)[2], source),
            Tail(overrides), source)

RECURSIVE doRegisterDefaultConfigurations(_, _)
doRegisterDefaultConfigurations(acc, configurationDefaults) ==
    IF configurationDefaults = <<>> THEN acc
    ELSE doRegisterDefaultConfigurations(
            registerDefaultOverrides(acc, Head(configurationDefaults).overrides,
                                     Head(configurationDefaults).source),
            Tail(configurationDefaults))

\* registerDefaultConfigurations(configurationDefaults): [reg, nodes, fired]
registerDefaultConfigurations(reg, configurationDefaults) ==
    fireOnce(doRegisterDefaultConfigurations([reg |-> reg, nodes |-> <<>>, bucket |-> {}],
                                             configurationDefaults),
             TRUE)

----------------------------------------------------------------------------
(* DefaultConfiguration *)

\* The body of the loop of updateConfigurationModel
updateModelForKey(model, key, registered, configurationDefaultsOverridesOfHook) ==
    IF key \in DOMAIN configurationDefaultsOverridesOfHook
        THEN setValue(model, key, configurationDefaultsOverridesOfHook[key])
    ELSE IF hasProperty(registered, key)
        THEN setValue(model, key, getProperty(registered, key).default)
    ELSE removeValue(model, key)

\* The value of getConfigurationDefaultOverrides() is not consulted.
RECURSIVE updateConfigurationModelIgnoringOverrides(_, _, _, _)
updateConfigurationModelIgnoringOverrides(model, properties, registered, configurationDefaultsOverridesOfHook) ==
    IF properties = <<>> THEN model
    ELSE updateConfigurationModelIgnoringOverrides(
            updateModelForKey(model, Head(properties), registered, <<>>),
            Tail(properties), registered, configurationDefaultsOverridesOfHook)

\* updateConfigurationModel(properties, configurationProperties): the new Model
RECURSIVE updateConfigurationModel(_, _, _, _)
updateConfigurationModel(model, properties, registered, configurationDefaultsOverridesOfHook) ==
    IF properties = <<>> THEN model
    ELSE updateConfigurationModel(
            updateModelForKey(model, Head(properties), registered, configurationDefaultsOverridesOfHook),
            Tail(properties), registered, configurationDefaultsOverridesOfHook)

\* resetConfigurationModel(), which is all of reload()
resetConfigurationModel(reg, configurationDefaultsOverridesOfHook) ==
    updateConfigurationModel(createEmptyModel, propertyKeys(reg.configurationProperties),
                             reg.configurationProperties, configurationDefaultsOverridesOfHook)

----------------------------------------------------------------------------
(* Registration calls and reload *)

Property(key, type, default, scope, included, policy) ==
    [key |-> key, type |-> type, default |-> default, scope |-> scope, restricted |-> Absent,
     included |-> included, policy |-> policy, source |-> Absent,
     defaultDefaultValue |-> Undefined, defaultValueSource |-> Sourced(Absent),
     disallowConfigurationDefault |-> FALSE]

\* Two schemas for "a.b", one for "a" under the policy of the first, an empty
\* key, an override-pattern key, and an excluded property.
PropertyPool ==
    {Property(kAB, "number", Scalar(4), Absent, Absent, "P1"),
     Property(kAB, "number", Scalar(5), "RESOURCE", Absent, Absent),
     Property(kA, "number", Undefined, Absent, Absent, "P1"),
     Property(<<>>, "number", Scalar(1), Absent, Absent, Absent),
     Property(kTS, "object", Object(kC :> Scalar(2)), Absent, Absent, Absent),
     Property(kD, "number", Scalar(3), Absent, "false", Absent)}

Node(properties, allOf) ==
    [properties |-> properties, allOf |-> allOf, scope |-> Absent, extensionInfo |-> "ext",
     restrictedProperties |-> <<kA>>]

\* The batches: one property; two properties of different keys in one node;
\* two properties in two nodes, the second inside an allOf sub-node.
Batches ==
    {<<Node(<<p>>, <<>>)>> : p \in PropertyPool}
    \cup {<<Node(<<pq[1], pq[2]>>, <<>>)>> :
            pq \in {x \in PropertyPool \X PropertyPool : x[1].key # x[2].key}}
    \cup {<<Node(<<pq[1]>>, <<>>), Node(<<>>, <<Node(<<pq[2]>>, <<>>)>>)>> :
            pq \in PropertyPool \X PropertyPool}

\* The batches of registerDefaultConfigurations
DefaultsBatches ==
    {<<[overrides |-> <<<<kAB, Scalar(9)>>>>, source |-> "ext"]>>,
     <<[overrides |-> <<<<kTS, Object(kC :> Scalar(11))>>>>, source |-> Absent]>>}

\* What a subclass may return from getConfigurationDefaultOverrides()
HookPool == {<<>>, (kAB :> Scalar(8))}

\* No call made yet.
NoCall == [none |-> TRUE]

InitRegistry ==
    /\ configurationProperties = <<>>
    /\ policyConfigurations = <<>>
    /\ excludedConfigurationProperties = <<>>
    /\ overrideIdentifiers = {}
    /\ configurationDefaultsOverrides = <<>>
    /\ submitted = NoCall
    /\ nodes = <<>>
    /\ fired = <<>>
    /\ defaultConfigurationModel = createEmptyModel
    /\ defaultOverrides = <<>>
    /\ reloaded = FALSE

\* The registry, the nodes and the notifications as a call leaves them.
RegistryBecomes(done) ==
    /\ configurationProperties' = done.reg.configurationProperties
    /\ policyConfigurations' = done.reg.policyConfigurations
    /\ excludedConfigurationProperties' = done.reg.excludedConfigurationProperties
    /\ overrideIdentifiers' = done.reg.overrideIdentifiers
    /\ configurationDefaultsOverrides' = done.reg.configurationDefaultsOverrides
    /\ nodes' = done.nodes
    /\ fired' = done.fired

\* configurationRegistry.registerConfigurations(configurations), validation
\* enabled; the contributions are registered before the defaults are loaded.
RegisterConfigurations(configurations) ==
    /\ ~reloaded
    /\ submitted' = [configurations |-> configurations]
    /\ RegistryBecomes(registerConfigurations(configurationRegistry, configurations, TRUE))
    /\ UNCHANGED <<defaultConfigurationModel, defaultOverrides, reloaded,
                   confVars, mergeVars, eventVars, parserVars, editVars, heapVars>>

\* configurationRegistry.registerDefaultConfigurations(configurationDefaults)
RegisterDefaultConfigurations(configurationDefaults) ==
    /\ ~reloaded
    /\ submitted' = [configurationDefaults |-> configurationDefaults]
    /\ RegistryBecomes(registerDefaultConfigurations(configurationRegistry, configurationDefaults))
    /\ UNCHANGED <<defaultConfigurationModel, defaultOverrides, reloaded,
                   confVars, mergeVars, eventVars, parserVars, editVars, heapVars>>

\* defaultConfiguration.reload()
Reload ==
    /\ ~reloaded
    /\ reloaded' = TRUE
    /\ defaultConfigurationModel' = resetConfigurationModel(configurationRegistry, defaultOverrides)
    /\ UNCHANGED <<configurationProperties, policyConfigurations, excludedConfigurationProperties,
                   overrideIdentifiers, configurationDefaultsOverrides, submitted, nodes, fired, defaultOverrides,
                   confVars, mergeVars, eventVars, parserVars, editVars, heapVars>>

----------------------------------------------------------------------------
(* The Configuration under updateValue and getValue *)

DefaultsPool == {Shape(n, 1) : n \in {12}}
PolicyPool == {Shape(n, 9) : n \in {1, 2}}
ApplicationPool == {Shape(n, 2) : n \in {1, 2}}
LocalUserPool == {Shape(n, 3) : n \in {1, 6}}
RemoteUserPool == {Shape(n, 4) : n \in {1, 2}}
WorkspacePool == {Shape(n, 5) : n \in {3, 8}}
FolderPool == {Shape(n, 6) : n \in {2, 9}}

InitConfiguration ==
    /\ defaultConfiguration \in DefaultsPool
    /\ policyConfiguration \in PolicyPool
    /\ applicationConfiguration \in ApplicationPool
    /\ localUserConfiguration \in LocalUserPool
    /\ remoteUserConfiguration \in RemoteUserPool
    /\ workspaceConfiguration \in WorkspacePool
    /\ folderConfigurations \in {<<>>} \cup {("f1" :> m) : m \in FolderPool}
    /\ memoryConfiguration = createEmptyModel
    /\ memoryConfigurationByResource = <<>>
    /\ workspaceConsolidatedConfiguration = Null
    /\ foldersConsolidatedConfigurations = <<>>
    /\ userConfiguration = Null
    /\ updates = 0

\* The state takes the fields of the Configuration c.
Becomes(c) ==
    /\ memoryConfiguration' = c.memoryConfiguration
    /\ memoryConfigurationByResource' = c.memoryConfigurationByResource
    /\ workspaceConsolidatedConfiguration' = c.workspaceConsolidatedConfiguration
    /\ foldersConsolidatedConfigurations' = c.foldersConsolidatedConfigurations
    /\ userConfiguration' = c.userConfiguration
    /\ UNCHANGED <<defaultConfiguration, policyConfiguration, applicationConfiguration,
                   localUserConfiguration, remoteUserConfiguration, workspaceConfiguration,
                   folderConfigurations, mergeVars, eventVars, registryVars, parserVars, editVars, heapVars>>

\* The values written: a scalar, an object, or undefined (removal).
UpdateInputs(resource) ==
    LET v == IF resource = NoResource THEN 7 ELSE 8
    IN  {<<kC, Scalar(v)>>, <<kC, Undefined>>, <<kA, Object(kB :> Scalar(v))>>}
            \cup (IF resource = NoResource THEN {<<kAB, Undefined>>} ELSE {})

\* configuration.updateValue(key, value, {resource})
UpdateValue(key, value, resource) ==
    /\ updates < MaxUpdates
    /\ updates' = updates + 1
    /\ Becomes(afterUpdateValue(this, key, value, resource))

\* configuration.getValue(section, {resource, overrideIdentifier}, workspace)
GetValue(resource, workspace) ==
    /\ updates' = updates
    /\ Becomes(afterGetValue(this, resource, workspace))

\* configuration.toData() reads userConfiguration, which the getter caches.
ToData ==
    /\ updates' = updates
    /\ Becomes([this EXCEPT !.userConfiguration = getUserConfiguration(this)])

----------------------------------------------------------------------------
(* Specifications *)

Init == InitConfiguration /\ InitMerge /\ InitEvent /\ InitHeapIdle /\ InitEdit /\ InitParser /\ InitRegistry

UpdateValueStep ==
    \E resource \in Resources \cup {NoResource} :
        \E input \in UpdateInputs(resource) : UpdateValue(input[1], input[2], resource)

GetValueStep ==
    \E resource \in Resources \cup {NoResource}, workspace \in Workspaces \cup {NoWorkspace} :
        GetValue(resource, workspace)

Next == UpdateValueStep \/ GetValueStep \/ ToData

Spec == Init /\ [][Next]_vars

\* A Configuration of empty layers, for the specifications of the pure operations.
EmptyConfiguration ==
    /\ defaultConfiguration = createEmptyModel
    /\ policyConfiguration = createEmptyModel
    /\ applicationConfiguration = createEmptyModel
    /\ localUserConfiguration = createEmptyModel
    /\ remoteUserConfiguration = createEmptyModel
    /\ workspaceConfiguration = createEmptyModel
    /\ folderConfigurations = <<>>
    /\ memoryConfiguration = createEmptyModel
    /\ memoryConfigurationByResource = <<>>
    /\ workspaceConsolidatedConfiguration = Null
    /\ foldersConsolidatedConfigurations = <<>>
    /\ userConfiguration = Null
    /\ updates = 0

InitPure == EmptyConfiguration /\ InitMerge /\ InitEvent /\ InitHeapIdle /\ InitEdit /\ InitParser /\ InitRegistry

AddOperandStep == \E n \in MergeShapes : AddOperand(n)

OverrideStep == \E identifier \in OverrideIdentifiers : Override(identifier)

NextMerge == AddOperandStep \/ DoMerge \/ OverrideStep

SpecMerge == InitPure /\ [][NextMerge]_vars

AddChangedKeyStep == \E key \in EventKeys : AddChangedKey(key)

AddChangedOverrideKeyStep == \E key \in EventKeys : AddChangedOverrideKey(idTS, key)

NextEvent == AddChangedKeyStep \/ AddChangedOverrideKeyStep \/ ConstructEvent

SpecEvent == InitPure /\ [][NextEvent]_vars

\* The DefaultConfiguration is of a class whose hook returns one of HookPool.
InitRegistration ==
    /\ EmptyConfiguration /\ InitMerge /\ InitEvent /\ InitHeapIdle /\ InitEdit /\ InitParser
    /\ configurationProperties = <<>>
    /\ policyConfigurations = <<>>
    /\ excludedConfigurationProperties = <<>>
    /\ overrideIdentifiers = {}
    /\ configurationDefaultsOverrides = <<>>
    /\ submitted = NoCall
    /\ nodes = <<>>
    /\ fired = <<>>
    /\ defaultConfigurationModel = createEmptyModel
    /\ defaultOverrides \in HookPool
    /\ reloaded = FALSE

RegisterConfigurationsStep == \E configurations \in Batches : RegisterConfigurations(configurations)

RegisterDefaultConfigurationsStep ==
    \E configurationDefaults \in DefaultsBatches : RegisterDefaultConfigurations(configurationDefaults)

NextRegistry == RegisterConfigurationsStep \/ RegisterDefaultConfigurationsStep \/ Reload

SpecRegistry == InitRegistration /\ [][NextRegistry]_vars

----------------------------------------------------------------------------
(* Claims about ConfigurationModel.merge, under SpecMerge *)

definers(k) == {i \in 1..Len(operands) : modelGetValue(operands[i], k) # Undefined}
highestDefiner(k) == CHOOSE i \in definers(k) : \A j \in definers(k) : j <= i
scalarWhereDefined(k) == \A i \in definers(k) : ~isObject(modelGetValue(operands[i], k))

\* The dotted proper prefixes of a key: "a" and "a.b" for "a.b.e".
properPrefixes(k) == {SubSeq(k, 1, i - 1) : i \in {j \in 1..Len(k) : k[j] = "."}}

\* The Model gives a non-object value to a proper prefix of k.
shadows(model, k) ==
    \E p \in properPrefixes(k) :
        modelGetValue(model, p) # Undefined /\ ~isObject(modelGetValue(model, p))

\* C9 as stated: the merged Model resolves every scalar key to the value of the
\* highest-index operand that defines it.
C9_HighestDefinerWins ==
    merged # Null =>
        \A k \in QueryKeys :
            (definers(k) # {} /\ scalarWhereDefined(k)) =>
                modelGetValue(merged, k) = modelGetValue(operands[highestDefiner(k)], k)

\* C9 amended: the merged Model resolves a scalar key to the value of the
\* highest-index operand that defines it, provided no operand after that one
\* gives a non-object value to a proper dotted prefix of the key.
C9_HighestDefinerWinsUnlessShadowed ==
    merged # Null =>
        \A k \in QueryKeys :
            (/\ definers(k) # {}
             /\ scalarWhereDefined(k)
             /\ \A j \in (highestDefiner(k) + 1)..Len(operands) : ~shadows(operands[j], k)) =>
                modelGetValue(merged, k) = modelGetValue(operands[highestDefiner(k)], k)

\* Three operands, two of them define c, and the later of the two is not the last.
C9_Witness ==
    /\ merged # Null
    /\ Len(operands) = 3
    /\ definers(kC) = {1, 2}
    /\ modelGetValue(merged, kC) = Scalar(2)

\* A later operand shadows a key an earlier one defines: "a.b" then "a".
C9_ShadowedWitness ==
    /\ merged # Null
    /\ definers(kAB) # {}
    /\ \E j \in (highestDefiner(kAB) + 1)..Len(operands) : shadows(operands[j], kAB)
    /\ modelGetValue(merged, kAB) = Undefined

\* The positions of the value tree at which two objects can meet.
ObjectPaths == {<<>>, <<kA>>, <<kA, kB>>}
Segments == {kA, kB, kC, kD, kE, kTS}

valueAt(model, path) == accessSetting(Object(model.contents), path)

\* C10: wherever the earlier and the later Model both hold an object, at any
\* depth, the merge holds under each property name the later value when the
\* later Model defines one (the two merged again when both are objects) and
\* the earlier value otherwise.
C10_ObjectsMergeLeafByLeaf ==
    (merged # Null /\ Len(operands) >= 2) =>
        LET earlier == merge(Head(operands), SubSeq(operands, 2, Len(operands) - 1))
            later == operands[Len(operands)]
        IN  \A p \in ObjectPaths :
                (isObject(valueAt(earlier, p)) /\ isObject(valueAt(later, p))) =>
                    /\ isObject(valueAt(merged, p))
                    /\ \A s \in Segments :
                        LET e == valueAt(earlier, Append(p, s))
                            l == valueAt(later, Append(p, s))
                            m == valueAt(merged, Append(p, s))
                        IN  /\ (l # Undefined /\ ~(isObject(e) /\ isObject(l))) => m = l
                            /\ l = Undefined => m = e

\* {a:{b:1}} merged with {a:{d:2}} is {a:{b:1,d:2}}, and likewise one level down.
C10_Witness ==
    /\ merged # Null
    /\ Len(operands) = 3
    /\ modelGetValue(operands[1], kA) = Object(kB :> Object(kE :> Scalar(1)))
    /\ modelGetValue(operands[2], kA) = Object(kB :> Object(kD :> Scalar(2)))
    /\ modelGetValue(operands[3], kA) = Object(kD :> Scalar(3))
    /\ modelGetValue(merged, kA) =
            Object((kB :> Object((kE :> Scalar(1)) @@ (kD :> Scalar(2)))) @@ (kD :> Scalar(3)))

----------------------------------------------------------------------------
(* Claims about ConfigurationChangeEvent.affectsConfiguration, under SpecEvent *)

startsWith(key, prefix) == Len(prefix) <= Len(key) /\ SubSeq(key, 1, Len(prefix)) = prefix

keyUnderSection(key, section) == key = section \/ startsWith(key, section \o <<".">>)

\* C7: without overrides, affectsConfiguration(s) is true exactly when some
\* changed key equals s or starts with s followed by '.', whatever other keys
\* the change set holds and in whatever order.
C7_AffectsExactlyKeysUnderSection ==
    affectsConfigStr # NotConstructed =>
        \A s \in Sections :
            changedKeyTest(affectsConfigStr, s)
                <=> \E i \in 1..Len(affectedKeys(change)) : keyUnderSection(affectedKeys(change)[i], s)

----------------------------------------------------------------------------
(* Claims about Configuration, under Spec *)

ConfKeys == {kA, kAB, kAD, kC}
QueryResources == Resources \cup {NoResource}
QueryWorkspaces == Workspaces \cup {NoWorkspace}
QueryIdentifiers == Identifiers \cup {NoIdentifier}

definersIn(layers, k) == {i \in 1..Len(layers) : modelGetValue(layers[i], k) # Undefined}
highestIn(layers, k) == CHOOSE i \in definersIn(layers, k) : \A j \in definersIn(layers, k) : j <= i
scalarIn(layers, k) == \A i \in definersIn(layers, k) : ~isObject(modelGetValue(layers[i], k))
unshadowedIn(layers, k) == \A j \in (highestIn(layers, k) + 1)..Len(layers) : ~shadows(layers[j], k)

policyDefines(k) == modelGetValue(policyConfiguration, k) # Undefined

\* defaults < application < user < workspace < memory(global)
workspaceLayers ==
    <<defaultConfiguration, applicationConfiguration, getUserConfiguration(this),
      workspaceConfiguration, memoryConfiguration>>

\* The memory Model of a resource, which a query reads only when it is given a workspace.
resourceLayer(resource, workspace) ==
    IF workspace # NoWorkspace /\ resource \in DOMAIN memoryConfigurationByResource
        THEN <<memoryConfigurationByResource[resource]>>
        ELSE <<>>

\* The queries about a resource that no folder owns, or about no resource.
UnownedResources == {r \in QueryResources : r = NoResource \/ getFolder("ws", r) = NoFolder}

\* C1 as stated: with no folder-owned resource and no override identifier,
\* getValue(k) is the value of the highest of defaults < application < user <
\* workspace < memory(global) that defines the scalar key k (policy not defining k).
C1_HighestWorkspaceLayerWins ==
    LET layers == workspaceLayers
    IN  \A k \in ConfKeys :
            (/\ ~policyDefines(k)
             /\ definersIn(layers, k) # {}
             /\ scalarIn(layers, k)) =>
                \A resource \in UnownedResources, workspace \in QueryWorkspaces :
                    getValue(this, k, resource, NoIdentifier, workspace)
                        = modelGetValue(layers[highestIn(layers, k)], k)

\* C1 amended: the order is defaults < application < user < workspace <
\* memory(global) < memory of the queried resource (read when a workspace is
\* passed), and the highest layer that defines k gives the value provided no
\* layer above it gives a non-object value to a proper dotted prefix of k.
C1_HighestLayerWinsUnlessShadowed ==
    LET lower == workspaceLayers
    IN  \A resource \in UnownedResources, workspace \in QueryWorkspaces :
            LET layers == lower \o resourceLayer(resource, workspace)
            IN  \A k \in ConfKeys :
                    (/\ ~policyDefines(k)
                     /\ definersIn(layers, k) # {}
                     /\ scalarIn(layers, k)
                     /\ unshadowedIn(layers, k)) =>
                        getValue(this, k, resource, NoIdentifier, workspace)
                            = modelGetValue(layers[highestIn(layers, k)], k)

\* Defaults, workspace and global memory define c; a query without resource gets the memory value.
C1_Witness ==
    /\ ~policyDefines(kC)
    /\ {1, 4, 5} \subseteq definersIn(workspaceLayers, kC)
    /\ workspaceConsolidatedConfiguration # Null
    /\ getValue(this, kC, NoResource, NoIdentifier, NoWorkspace) = Scalar(7)
    /\ getValue(this, kC, "r2", NoIdentifier, "ws") = Scalar(7)

\* C2: for a resource of folder f whose folder Model defines the scalar key k
\* (policy not defining k, the resource's own memory not defining k), getValue
\* is the global memory value when the global memory layer defines k and the
\* folder's value otherwise.
C2_FolderBelowGlobalMemory ==
    \A k \in ConfKeys, resource \in Resources :
        LET folder == getFolder("ws", resource)
        IN  (/\ folder \in DOMAIN folderConfigurations
             /\ modelGetValue(folderConfigurations[folder], k) # Undefined
             /\ ~isObject(modelGetValue(folderConfigurations[folder], k))
             /\ ~policyDefines(k)
             /\ definersIn(resourceLayer(resource, "ws"), k) = {}) =>
                getValue(this, k, resource, NoIdentifier, "ws")
                    = IF modelGetValue(memoryConfiguration, k) # Undefined
                        THEN modelGetValue(memoryConfiguration, k)
                        ELSE modelGetValue(folderConfigurations[folder], k)

\* C3: when policy defines the scalar key k, every query for k returns the
\* policy value, for every resource, workspace context and override
\* identifier, in every state reached by updateValue and getValue.
C3_PolicyWins ==
    \A k \in ConfKeys :
        (policyDefines(k) /\ ~isObject(modelGetValue(policyConfiguration, k))) =>
            \A resource \in QueryResources, identifier \in QueryIdentifiers,
               workspace \in QueryWorkspaces :
                getValue(this, k, resource, identifier, workspace)
                    = modelGetValue(policyConfiguration, k)

\* Policy defines c, and so do the memory of r1 and an override section for ts.
C3_Witness ==
    /\ modelGetValue(policyConfiguration, kC) = Scalar(9)
    /\ "r1" \in DOMAIN memoryConfigurationByResource
    /\ modelGetValue(memoryConfigurationByResource["r1"], kC) = Scalar(8)
    /\ modelGetValue(memoryConfiguration, kC) = Scalar(7)
    /\ getValue(Configuration(defaultConfiguration, createEmptyModel, applicationConfiguration,
                              localUserConfiguration, remoteUserConfiguration,
                              workspaceConfiguration, folderConfigurations, memoryConfiguration,
                              <<>>),
                kC, "r1", idTS, "ws") \in {Scalar(11), Scalar(15)}
    /\ getValue(this, kC, "r1", idTS, "ws") = Scalar(9)


\* The Configuration object of the next state.
thisNext ==
    [defaultConfiguration |-> defaultConfiguration',
     policyConfiguration |-> policyConfiguration',
     applicationConfiguration |-> applicationConfiguration',
     localUserConfiguration |-> localUserConfiguration',
     remoteUserConfiguration |-> remoteUserConfiguration',
     workspaceConfiguration |-> workspaceConfiguration',
     folderConfigurations |-> folderConfigurations',
     memoryConfiguration |-> memoryConfiguration',
     memoryConfigurationByResource |-> memoryConfigurationByResource',
     workspaceConsolidatedConfiguration |-> workspaceConsolidatedConfiguration',
     foldersConsolidatedConfigurations |-> foldersConsolidatedConfigurations',
     userConfiguration |-> userConfiguration']

\* Every query for k that is not about resource r returns after the step what it returned before.
othersUnchanged(k, r) ==
    \A resource \in QueryResources \ {r}, workspace \in QueryWorkspaces :
        getValue(thisNext, k, resource, NoIdentifier, workspace)
            = getValue(this, k, resource, NoIdentifier, workspace)

\* C4 as stated: after updateValue(k, v, {resource: r}) with v defined (policy
\* not defining k), getValue(k, {resource: r}) is v in every workspace context,
\* and the queries for k about other resources and about no resource are unchanged.
C4_ResourceWriteReadBack ==
    [][\A r \in Resources : \A input \in UpdateInputs(r) :
          (/\ UpdateValue(input[1], input[2], r)
           /\ input[2] # Undefined
           /\ ~policyDefines(input[1])) =>
              /\ \A workspace \in QueryWorkspaces :
                    getValue(thisNext, input[1], r, NoIdentifier, workspace) = input[2]
              /\ othersUnchanged(input[1], r)]_vars

\* C4 amended: after updateValue(k, v, {resource: r}) with v a defined
\* non-object value (policy not defining k), getValue(k, {resource: r},
\* workspace) is v whenever a workspace is passed; without a workspace the
\* query returns what it returned before, as do the queries for k about other
\* resources and about no resource.
C4_ResourceWriteReadBackInWorkspace ==
    [][\A r \in Resources : \A input \in UpdateInputs(r) :
          (/\ UpdateValue(input[1], input[2], r)
           /\ input[2] # Undefined
           /\ ~isObject(input[2])
           /\ ~policyDefines(input[1])) =>
              /\ \A workspace \in Workspaces :
                    getValue(thisNext, input[1], r, NoIdentifier, workspace) = input[2]
              /\ getValue(thisNext, input[1], r, NoIdentifier, NoWorkspace)
                    = getValue(this, input[1], r, NoIdentifier, NoWorkspace)
              /\ othersUnchanged(input[1], r)]_vars

\* c was written for r1 after the consolidated caches were filled: r1 reads 8,
\* r2 and the query without resource do not.
C4_Witness ==
    /\ ~policyDefines(kC)
    /\ workspaceConsolidatedConfiguration # Null
    /\ "f1" \in DOMAIN foldersConsolidatedConfigurations
    /\ "r1" \in DOMAIN memoryConfigurationByResource
    /\ "r2" \notin DOMAIN memoryConfigurationByResource
    /\ modelGetValue(memoryConfigurationByResource["r1"], kC) = Scalar(8)
    /\ getValue(this, kC, "r1", NoIdentifier, "ws") = Scalar(8)
    /\ getValue(this, kC, "r2", NoIdentifier, "ws") # Scalar(8)
    /\ getValue(this, kC, NoResource, NoIdentifier, "ws") # Scalar(8)

\* A Configuration newly constructed from the current layer Models.
fresh ==
    Configuration(defaultConfiguration, policyConfiguration, applicationConfiguration,
                  localUserConfiguration, remoteUserConfiguration, workspaceConfiguration,
                  folderConfigurations, memoryConfiguration, memoryConfigurationByResource)

sameAnswers(c1, c2) ==
    \A k \in ConfKeys, resource \in QueryResources, identifier \in QueryIdentifiers,
       workspace \in QueryWorkspaces :
        getValue(c1, k, resource, identifier, workspace)
            = getValue(c2, k, resource, identifier, workspace)

\* C5: after any sequence of updateValue and getValue calls, every query
\* returns what the same query returns on a Configuration newly constructed
\* from the current layer Models (the caches are never observably stale).
C5_CachesNeverStale == sameAnswers(this, fresh)

\* C6: for every Configuration reached by updateValue calls, every query on
\* parse(toData()) returns what it returns on the Configuration itself.
C6_RoundTrip == sameAnswers(parse(toData(this)), this)

\* The event of a step that wrote key: change { keys: [key], overrides: [] },
\* previous { workspace, data: toData() } taken before the write.
affectsAfterWrite(key, section, resource, identifier) ==
    affectsConfiguration(buildAffectsConfigStr([keys |-> <<key>>, overrides |-> <<>>]),
                         [workspace |-> "ws", data |-> toData(this)],
                         thisNext, "ws", section,
                         [resource |-> resource, overrideIdentifier |-> identifier])

\* C8: with overrides supplied, affectsConfiguration(section, overrides) is
\* true exactly when the section passes the changed-key test and the value
\* resolved before the change differs from the value resolved after it, the
\* previous snapshot being toData() before an updateValue on a memory layer.
C8_AffectsWhenValueDiffers ==
    [][\A r \in QueryResources : \A input \in UpdateInputs(r) :
          UpdateValue(input[1], input[2], r) =>
              \A section \in ConfKeys, resource \in QueryResources, identifier \in QueryIdentifiers :
                  affectsAfterWrite(input[1], section, resource, identifier)
                      <=> /\ changedKeyTest(buildAffectsConfigStr([keys |-> <<input[1]>>,
                                                                   overrides |-> <<>>]), section)
                          /\ getValue(this, section, resource, identifier, "ws")
                                # getValue(thisNext, section, resource, identifier, "ws")]_vars

----------------------------------------------------------------------------
(* Claims about merge idempotence and the override projection, under SpecMerge *)

OverrideQueryKeys == QueryKeys \cup {kD}
TopLevelKeys == {kA, kC, kD}

\* model.getValue(k), or model.override(identifier).getValue(k)
resolve(model, k, identifier) ==
    modelGetValue(IF identifier = NoIdentifier THEN model ELSE override(model, identifier), k)

sameModel(m1, m2) ==
    /\ m1.keys = m2.keys
    /\ m1.overrides = m2.overrides
    /\ \A k \in OverrideQueryKeys, identifier \in OverrideIdentifiers \cup {NoIdentifier} :
            resolve(m1, k, identifier) = resolve(m2, k, identifier)

idempotentOn(m) == sameModel(merge(m, <<m>>), m)

lists(section, identifier) == indexOf(section.identifiers, identifier) # 0

listingSections(model, identifier) ==
    {i \in 1..Len(model.overrides) : lists(model.overrides[i], identifier)}

singleSections(model, identifier) ==
    {i \in 1..Len(model.overrides) : model.overrides[i].identifiers = <<identifier>>}

multiSections(model, identifier) ==
    listingSections(model, identifier) \ singleSections(model, identifier)

definingSections(model, identifier, k) ==
    {i \in listingSections(model, identifier) : k \in DOMAIN model.overrides[i].contents}

\* C12: for an identifier that no override section lists, or whose sections
\* are all empty, model.override(identifier) resolves every key as the base
\* Model does.
C12_UnlistedIdentifierIsBase ==
    projection # Null =>
        ((\A i \in listingSections(merged, projection.identifier) :
                DOMAIN merged.overrides[i].contents = {}) =>
            \A k \in OverrideQueryKeys :
                modelGetValue(projection.model, k) = modelGetValue(merged, k))

\* The Model has a section for "ts" that defines c, the base defines c, and
\* the projection on "js" resolves c to the base value.
C12_Witness ==
    /\ projection # Null
    /\ projection.identifier = idJS
    /\ definingSections(merged, idTS, kC) # {}
    /\ modelGetValue(merged, kC) # Undefined
    /\ modelGetValue(projection.model, kC) = modelGetValue(merged, kC)
    /\ resolve(merged, kC, idTS) # modelGetValue(merged, kC)

\* C13: a top-level key k that one matching override section defines with a
\* non-object value v (0 included) resolves to v in model.override(identifier),
\* whatever the base defines for k.
C13_OverrideValueWins ==
    projection # Null =>
        \A k \in TopLevelKeys :
            \A i \in definingSections(merged, projection.identifier, k) :
                (/\ definingSections(merged, projection.identifier, k) = {i}
                 /\ ~isObject(merged.overrides[i].contents[k])) =>
                    modelGetValue(projection.model, k) = merged.overrides[i].contents[k]

\* C14: when the identifier is listed by a multi-identifier section and by
\* the single-identifier section, a key defined by both resolves to the
\* single-identifier section's value, in whichever order the sections appear,
\* and a key defined only by the multi-identifier section to that section's value.
C14_SingleIdentifierSectionWins ==
    projection # Null =>
        LET id == projection.identifier
            singles == singleSections(merged, id)
            multis == multiSections(merged, id)
            sectionValue(i, k) == merged.overrides[i].contents[k]
        IN  (singles # {} /\ multis # {}) =>
                \A k \in TopLevelKeys :
                    /\ \A i \in singles \cap definingSections(merged, id, k) :
                            (/\ multis \cap definingSections(merged, id, k) # {}
                             /\ ~isObject(sectionValue(i, k))) =>
                                modelGetValue(projection.model, k) = sectionValue(i, k)
                    /\ \A j \in multis \cap definingSections(merged, id, k) :
                            (/\ definingSections(merged, id, k) = {j}
                             /\ ~isObject(sectionValue(j, k))) =>
                                modelGetValue(projection.model, k) = sectionValue(j, k)

----------------------------------------------------------------------------
(* Claims about the ConfigurationRegistry and the DefaultConfiguration,    *)
(* under SpecRegistry                                                      *)

\* The properties of the nodes, in the order the registration visits them.
RECURSIVE flattenNodes(_)
flattenNodes(configurations) ==
    IF configurations = <<>> THEN <<>>
    ELSE Head(configurations).properties \o flattenNodes(Head(configurations).allOf)
            \o flattenNodes(Tail(configurations))

keysOf(properties) == {properties[i].key : i \in 1..Len(properties)}

\* The last call was registerConfigurations(configurations).
registered(configurations) == submitted = [configurations |-> configurations]

\* C15: a key is registered at most once.  Over every registerConfigurations call
\* with validation enabled: each key that was in getConfigurationProperties()
\* before the call has the same descriptor after it, and no node of the call
\* still holds a property of that key; a key offered twice in the call is kept
\* once, with the descriptor of the property the nodes still hold.
C15_RegisteredOnce ==
    [][\A configurations \in Batches :
        RegisterConfigurations(configurations) =>
            /\ \A i \in 1..Len(configurationProperties) :
                /\ hasProperty(configurationProperties', configurationProperties[i].key)
                /\ getProperty(configurationProperties', configurationProperties[i].key)
                        = configurationProperties[i]
                /\ configurationProperties[i].key \notin keysOf(flattenNodes(nodes'))
            /\ \A i, j \in 1..Len(flattenNodes(nodes')) :
                /\ flattenNodes(nodes')[i].key = flattenNodes(nodes')[j].key => i = j
                /\ getProperty(configurationProperties', flattenNodes(nodes')[i].key)
                        = flattenNodes(nodes')[i]]_vars

\* "a.b" is registered with default 4, and the last call offered "a.b" with
\* default 5: the node is left without it.
C15_Witness ==
    /\ registered(<<Node(<<Property(kAB, "number", Scalar(5), "RESOURCE", Absent, Absent)>>, <<>>)>>)
    /\ hasProperty(configurationProperties, kAB)
    /\ getProperty(configurationProperties, kAB).default = Scalar(4)
    /\ nodes = <<Node(<<>>, <<>>)>>

\* The properties of the nodes in the order the registration visits them, each
\* with the path of its node: <<i>> for the i-th node, <<i, j>> for the j-th
\* sub-node of the i-th node.
RECURSIVE flattenPaths(_, _, _)
flattenPaths(configurations, path, i) ==
    IF i > Len(configurations) THEN <<>>
    ELSE [k \in 1..Len(configurations[i].properties) |->
                [path |-> Append(path, i), property |-> configurations[i].properties[k]]]
            \o flattenPaths(configurations[i].allOf, Append(path, i), 1)
            \o flattenPaths(configurations, path, i + 1)

offeredBy(configurations) == flattenPaths(configurations, <<>>, 1)

\* What becomes of each offered property, in order: "invalid" for an empty key,
\* an override-pattern key, a key already registered and a policy name already
\* claimed, before the call or earlier in it; "excluded" for a valid property
\* declared included: false; "registered" otherwise.
RECURSIVE outcomes(_, _, _)
outcomes(offered, takenKeys, takenPolicies) ==
    IF offered = <<>> THEN <<>>
    ELSE IF \/ trim(Head(offered).property.key) = <<>>
            \/ OVERRIDE_PROPERTY_REGEX_test(Head(offered).property.key)
            \/ Head(offered).property.key \in takenKeys
            \/ Head(offered).property.policy \in takenPolicies
        THEN <<"invalid">> \o outcomes(Tail(offered), takenKeys, takenPolicies)
    ELSE IF Head(offered).property.included = "false"
        THEN <<"excluded">> \o outcomes(Tail(offered), takenKeys, takenPolicies)
    ELSE <<"registered">> \o outcomes(Tail(offered),
                                      takenKeys \cup {Head(offered).property.key},
                                      takenPolicies \cup ({Head(offered).property.policy} \ {Absent}))

\* The outcomes of a call from the registry of the current state.
outcomesOf(configurations) ==
    outcomes(offeredBy(configurations), keysOf(configurationProperties), DOMAIN policyConfigurations)

\* <<path, key>> of the offered properties that have the outcome.
RECURSIVE withOutcome(_, _, _)
withOutcome(offered, outcome, wanted) ==
    IF offered = <<>> THEN <<>>
    ELSE (IF Head(outcome) = wanted
            THEN <<[path |-> Head(offered).path, key |-> Head(offered).property.key]>>
            ELSE <<>>)
         \o withOutcome(Tail(offered), Tail(outcome), wanted)

pathsAndKeys(offered) ==
    [i \in 1..Len(offered) |-> [path |-> offered[i].path, key |-> offered[i].property.key]]

keysIn(pathed) == {pathed[i].key : i \in 1..Len(pathed)}

\* C16 as stated: registration is best-effort across a batch.  Over every
\* registerConfigurations call: every valid property of the batch ends up in
\* getConfigurationProperties(), and every invalid one adds nothing to the
\* registry and is deleted from its node.
C16_BestEffort ==
    [][\A configurations \in Batches :
        RegisterConfigurations(configurations) =>
            /\ \A i \in 1..Len(offeredBy(configurations)) :
                outcomesOf(configurations)[i] # "invalid" =>
                    hasProperty(configurationProperties', offeredBy(configurations)[i].property.key)
            /\ \A i \in 1..Len(offeredBy(configurations)) :
                outcomesOf(configurations)[i] = "invalid" =>
                    /\ \A j \in 1..Len(offeredBy(nodes')) :
                            pathsAndKeys(offeredBy(nodes'))[j]
                                # pathsAndKeys(offeredBy(configurations))[i]
                    /\ \/ offeredBy(configurations)[i].property.key \in keysOf(configurationProperties)
                       \/ offeredBy(configurations)[i].property.key
                            \in keysIn(withOutcome(offeredBy(configurations),
                                                   outcomesOf(configurations), "registered"))
                       \/ ~hasProperty(configurationProperties',
                                       offeredBy(configurations)[i].property.key)]_vars

\* C16 amended: over every registerConfigurations call, the properties that are
\* valid and not declared included: false are appended to
\* getConfigurationProperties() in the order offered, with their declared
\* default as defaultDefaultValue, and are exactly what the nodes still hold;
\* the valid properties declared included: false go to the excluded properties
\* and are deleted from their node; the invalid ones are deleted from their
\* node and add nothing to either dictionary.
C16_BestEffortButExcluded ==
    [][\A configurations \in Batches :
        RegisterConfigurations(configurations) =>
            /\ propertyKeys(configurationProperties')
                = propertyKeys(configurationProperties)
                    \o [i \in 1..Len(withOutcome(offeredBy(configurations),
                                                 outcomesOf(configurations), "registered")) |->
                            withOutcome(offeredBy(configurations),
                                        outcomesOf(configurations), "registered")[i].key]
            /\ pathsAndKeys(offeredBy(nodes'))
                = withOutcome(offeredBy(configurations), outcomesOf(configurations), "registered")
            /\ \A i \in 1..Len(offeredBy(configurations)) :
                outcomesOf(configurations)[i] = "registered" =>
                    getProperty(configurationProperties',
                                offeredBy(configurations)[i].property.key).defaultDefaultValue
                        = offeredBy(configurations)[i].property.default
            /\ keysOf(excludedConfigurationProperties')
                = keysOf(excludedConfigurationProperties)
                    \cup keysIn(withOutcome(offeredBy(configurations),
                                            outcomesOf(configurations), "excluded"))]_vars

\* The last call offered an empty key in one node and "a.b" inside an allOf
\* sub-node of the next: the first node is left empty and "a.b" is registered.
C16_Witness ==
    /\ registered(<<Node(<<Property(<<>>, "number", Scalar(1), Absent, Absent, Absent)>>, <<>>),
                    Node(<<>>, <<Node(<<Property(kAB, "number", Scalar(4), Absent, Absent, "P1")>>, <<>>)>>)>>)
    /\ nodes[1].properties = <<>>
    /\ Len(nodes[2].allOf[1].properties) = 1
    /\ hasProperty(configurationProperties, kAB)
    /\ ~hasProperty(configurationProperties, <<>>)

\* The registered keys that carry the policy name.
carriers(policy) ==
    {i \in 1..Len(configurationProperties) : configurationProperties[i].policy = policy}

\* C17: no two keys of getConfigurationProperties() carry the same policy name,
\* and getPolicyConfigurations() maps exactly the policy names that a registered
\* key carries, each to that key.
C17_PolicyNamesUnique ==
    /\ \A i, j \in 1..Len(configurationProperties) :
        /\ configurationProperties[i].policy # Absent
        /\ configurationProperties[i].policy = configurationProperties[j].policy
        => i = j
    /\ \A i \in 1..Len(configurationProperties) :
        configurationProperties[i].policy # Absent =>
            /\ configurationProperties[i].policy \in DOMAIN policyConfigurations
            /\ policyConfigurations[configurationProperties[i].policy] = configurationProperties[i].key
    /\ \A policy \in DOMAIN policyConfigurations : carriers(policy) # {}

\* "a.b" holds policy P1, and the last call offered "a" under P1 as well: "a"
\* is not registered.
C17_Witness ==
    /\ \E layout \in Batches :
        /\ registered(layout)
        /\ \E i \in 1..Len(offeredBy(layout)) :
            /\ offeredBy(layout)[i].property.key = kA
            /\ offeredBy(layout)[i].property.policy = "P1"
    /\ "P1" \in DOMAIN policyConfigurations
    /\ policyConfigurations["P1"] = kAB
    /\ ~hasProperty(configurationProperties, kA)

\* The keys of the overrides of a registerDefaultConfigurations call.
overriddenBy(configurationDefaults) ==
    UNION {{configurationDefaults[i].overrides[j][1] :
                j \in 1..Len(configurationDefaults[i].overrides)} :
           i \in 1..Len(configurationDefaults)}

\* C18: each registerConfigurations call and each registerDefaultConfigurations
\* call fires onDidUpdateConfiguration exactly once; the listener finds the
\* registry as the whole batch leaves it, and the event carries the keys the
\* batch registered, respectively the keys it overrode.
C18_OneNotificationPerBatch ==
    [][/\ \A configurations \in Batches :
            RegisterConfigurations(configurations) =>
                /\ Len(fired') = 1
                /\ fired'[1].observed = configurationRegistry'
                /\ fired'[1].defaultsOverrides = FALSE
                /\ fired'[1].properties
                    = keysOf(configurationProperties') \ keysOf(configurationProperties)
       /\ \A configurationDefaults \in DefaultsBatches :
            RegisterDefaultConfigurations(configurationDefaults) =>
                /\ Len(fired') = 1
                /\ fired'[1].observed = configurationRegistry'
                /\ fired'[1].defaultsOverrides = TRUE
                /\ fired'[1].properties = overriddenBy(configurationDefaults)]_vars

\* The last call registered "a.b" from one node and "a" from an allOf sub-node
\* of the next, and fired one event that carries both keys.
C18_Witness ==
    /\ registered(<<Node(<<Property(kAB, "number", Scalar(5), "RESOURCE", Absent, Absent)>>, <<>>),
                    Node(<<>>, <<Node(<<Property(kA, "number", Undefined, Absent, Absent, "P1")>>, <<>>)>>)>>)
    /\ Len(fired) = 1
    /\ fired[1].properties = {kAB, kA}
    /\ keysOf(fired[1].observed.configurationProperties) = {kAB, kA}

----------------------------------------------------------------------------
(* Claims about writes of unknown and of absent keys, under Spec *)

\* The memory Model that updateValue(key, value, {resource}) works on, before
\* and after the call; a resource without a Model gets a new empty one.
targetedModel(resource) ==
    IF resource = NoResource THEN memoryConfiguration
    ELSE IF resource \in DOMAIN memoryConfigurationByResource
        THEN memoryConfigurationByResource[resource]
    ELSE createEmptyModel

targetedModelNext(resource) ==
    IF resource = NoResource THEN memoryConfiguration'
    ELSE memoryConfigurationByResource'[resource]

\* Every query consolidates in c1 the Model it consolidates in c2, under the
\* same policy Model: getValue then returns in c1 what it returns in c2, for
\* every section and every override identifier.
sameConsolidation(c1, c2) ==
    /\ c1.policyConfiguration = c2.policyConfiguration
    /\ \A resource \in QueryResources, workspace \in QueryWorkspaces :
            getConsolidatedConfigurationModelForResource(c1, resource, workspace)
                = getConsolidatedConfigurationModelForResource(c2, resource, workspace)

\* C19: no key of these calls is in the registry.  updateValue(k, v) with v
\* defined puts k among the keys of the targeted memory Model and, unless that
\* Model holds a non-object value at a proper dotted prefix of k, stores v at
\* k.  updateValue(k, undefined) for a k that is not among the keys of the
\* targeted memory Model leaves that Model as it is and changes no getValue
\* result: every query consolidates the Model it consolidated before.
C19_UnknownKeysAcceptedAbsentKeysIgnored ==
    [][\A resource \in QueryResources : \A input \in UpdateInputs(resource) :
          UpdateValue(input[1], input[2], resource) =>
              /\ ~hasProperty(configurationProperties, input[1])
              /\ input[2] # Undefined =>
                    /\ indexOf(targetedModelNext(resource).keys, input[1]) # 0
                    /\ ~shadows(targetedModel(resource), input[1]) =>
                            modelGetValue(targetedModelNext(resource), input[1]) = input[2]
              /\ (input[2] = Undefined /\ indexOf(targetedModel(resource).keys, input[1]) = 0) =>
                    /\ targetedModelNext(resource) = targetedModel(resource)
                    /\ sameConsolidation(thisNext, this)]_vars

\* Two calls were made: "c", which no registry knows, was written to the global
\* memory Model and is read back, and a key was removed from the memory Model
\* of r1, which had none: r1 has an empty Model.
C19_Witness ==
    /\ updates = 2
    /\ ~hasProperty(configurationProperties, kC)
    /\ memoryConfiguration.keys = <<kC>>
    /\ modelGetValue(memoryConfiguration, kC) = Scalar(7)
    /\ DOMAIN memoryConfigurationByResource = {"r1"}
    /\ memoryConfigurationByResource["r1"] = createEmptyModel

----------------------------------------------------------------------------
(* Claims about the defaults Model, under SpecRegistry *)

\* A Configuration whose only non-empty layer is the defaults Model.
defaultsOnly(model) ==
    Configuration(model, createEmptyModel, createEmptyModel, createEmptyModel, createEmptyModel,
                  createEmptyModel, <<>>, createEmptyModel, <<>>)

\* The value the defaults are to hold for the i-th registered key.
expectedDefault(i) ==
    IF configurationProperties[i].key \in DOMAIN defaultOverrides
        THEN defaultOverrides[configurationProperties[i].key]
        ELSE configurationProperties[i].default

\* One key is a proper dotted prefix of the other.
nested(k1, k2) == k1 \in properPrefixes(k2) \/ k2 \in properPrefixes(k1)

----------------------------------------------------------------------------
(* ConfigurationModelParser: parseRaw with its filter, and the raw          *)
(* documents a Model keeps.  A raw document is a function from the keys as  *)
(* written (dotted keys, override-section keys) to values.  The options are *)
(* a record [scopes, skipRestricted, include, exclude]: scopes is NoScopes  *)
(* or a sequence of scopes, include and exclude are sequences of keys (empty   *)
(* when not given).  A Model that keeps raw documents is the record of a    *)
(* ConfigurationModel with one more field, raw: a sequence of               *)
(* [document |-> d] and [model |-> m] entries, empty when the Model keeps   *)
(* none.                                                                    *)

\* options.scopes when no scopes are given
NoScopes == <<Absent>>

ParseOptions(scopes, skipRestricted, include, exclude) ==
    [scopes |-> scopes, skipRestricted |-> skipRestricted, include |-> include, exclude |-> exclude]

\* No options given.
NoOptions == ParseOptions(NoScopes, FALSE, <<>>, <<>>)

\* propertySchema ? typeof propertySchema.scope !== 'undefined' ? propertySchema.scope : WINDOW : undefined
filterScope(schemaProperties, key) ==
    IF ~hasProperty(schemaProperties, key) THEN Absent
    ELSE IF getProperty(schemaProperties, key).scope # Absent
        THEN getProperty(schemaProperties, key).scope
        ELSE "WINDOW"

\* propertySchema?.restricted
isRestricted(schemaProperties, key) ==
    /\ hasProperty(schemaProperties, key)
    /\ getProperty(schemaProperties, key).restricted = "true"

\* A key of `include` is kept even when it is a key of `exclude`.
filterKeepsIncludeFirst(schemaProperties, key, options) ==
    \/ indexOf(options.include, key) # 0
    \/ /\ indexOf(options.exclude, key) = 0
       /\ \/ filterScope(schemaProperties, key) = Absent
          \/ options.scopes = NoScopes
          \/ indexOf(options.scopes, filterScope(schemaProperties, key)) # 0
       /\ ~(options.skipRestricted /\ isRestricted(schemaProperties, key))

\* The condition under which filter copies properties[key] to raw[key].
filterKeeps(schemaProperties, key, options) ==
    /\ indexOf(options.exclude, key) = 0
    /\ \/ indexOf(options.include, key) # 0
       \/ /\ \/ filterScope(schemaProperties, key) = Absent
             \/ options.scopes = NoScopes
             \/ indexOf(options.scopes, filterScope(schemaProperties, key)) # 0
          /\ ~(options.skipRestricted /\ isRestricted(schemaProperties, key))

\* What filter returns: { raw, restricted, hasExcludedProperties }
Filtered(raw, restricted, hasExcludedProperties) ==
    [raw |-> raw, restricted |-> restricted, hasExcludedProperties |-> hasExcludedProperties]

\* The else branch of the loop of filter: a key that is not an override section.
filterPlainKey(acc, key, value, schemaProperties, options) ==
    Filtered(IF filterKeeps(schemaProperties, key, options) THEN Ext(acc.raw, key, value) ELSE acc.raw,
             IF isRestricted(schemaProperties, key) THEN Append(acc.restricted, key) ELSE acc.restricted,
             acc.hasExcludedProperties \/ ~filterKeeps(schemaProperties, key, options))

\* The then branch of the loop of filter: result is the filtered section.
filterSection(acc, key, result) ==
    Filtered(Ext(acc.raw, key, Object(result.raw)),
             acc.restricted \o result.restricted,
             acc.hasExcludedProperties \/ result.hasExcludedProperties)

RECURSIVE filter(_, _, _, _)
RECURSIVE filterKeys(_, _, _, _, _, _)

\* One iteration of the loop of filter.
filterKey(acc, key, properties, schemaProperties, filterOverriddenProperties, options) ==
    IF OVERRIDE_PROPERTY_REGEX_test(key) /\ filterOverriddenProperties
        THEN filterSection(acc, key,
                filter(fieldsOf(properties[key]), schemaProperties, FALSE, options))
        ELSE filterPlainKey(acc, key, properties[key], schemaProperties, options)

filterKeys(acc, keys, properties, schemaProperties, filterOverriddenProperties, options) ==
    IF keys = <<>> THEN acc
    ELSE filterKeys(filterKey(acc, Head(keys), properties, schemaProperties,
                              filterOverriddenProperties, options),
                    Tail(keys), properties, schemaProperties, filterOverriddenProperties, options)

\* ConfigurationModelParser.filter(properties, schemaProperties,
\* filterOverriddenProperties, options)
filter(properties, schemaProperties, filterOverriddenProperties, options) ==
    IF options.scopes = NoScopes /\ ~options.skipRestricted /\ Len(options.exclude) = 0
        THEN Filtered(properties, <<>>, FALSE)
        ELSE filterKeys(Filtered(EmptyObject, <<>>, FALSE), enumerate(DOMAIN properties),
                        properties, schemaProperties, filterOverriddenProperties, options)

\* The override section toOverrides makes of one override-section key.
overrideOf(key, overrideRaw) ==
    [identifiers |-> overrideIdentifiersFromKey(key),
     keys |-> enumerate(DOMAIN overrideRaw),
     contents |-> toValuesTree(overrideRaw)]

\* ConfigurationModelParser.toOverrides(raw)
RECURSIVE toOverridesOf(_, _)
toOverridesOf(keys, raw) ==
    IF keys = <<>> THEN <<>>
    ELSE IF OVERRIDE_PROPERTY_REGEX_test(Head(keys))
        THEN <<overrideOf(Head(keys), fieldsOf(raw[Head(keys)]))>> \o toOverridesOf(Tail(keys), raw)
        ELSE toOverridesOf(Tail(keys), raw)

toOverrides(raw) == toOverridesOf(enumerate(DOMAIN raw), raw)

\* new ConfigurationModel(contents, keys, overrides, raw)
ConfigurationModelOf(contents, keys, overrides, raw) ==
    [contents |-> contents, keys |-> keys, overrides |-> overrides, raw |-> raw]

\* The Model doParseRaw and parseRaw make of the filtered document.
modelOfFiltered(raw, filtered) ==
    ConfigurationModelOf(toValuesTree(filtered.raw), enumerate(DOMAIN filtered.raw),
                         toOverrides(filtered.raw),
                         IF filtered.hasExcludedProperties THEN <<[document |-> raw]>> ELSE <<>>)

\* The parser as parseRaw leaves it: [raw, configurationModel, restrictedConfigurations]
parserOfFiltered(raw, filtered) ==
    [raw |-> raw, configurationModel |-> modelOfFiltered(raw, filtered),
     restrictedConfigurations |-> filtered.restricted]

\* ConfigurationModelParser.parseRaw(raw, options) with the registry's properties
parseRaw(schemaProperties, raw, options) ==
    parserOfFiltered(raw, filter(raw, schemaProperties, TRUE, options))


\* this.raw?.length ? [...this.raw] : [this], and the same of an `other`
rawsOf(model) == IF Len(model.raw) # 0 THEN model.raw ELSE <<[model |-> model]>>

RECURSIVE rawsOfAll(_)
rawsOfAll(others) ==
    IF others = <<>> THEN <<>> ELSE rawsOf(Head(others)) \o rawsOfAll(Tail(others))

\* raws.every(raw => raw instanceof ConfigurationModel) ? undefined : raws
rawOfMerged(raws) ==
    IF \A i \in 1..Len(raws) : "model" \in DOMAIN raws[i] THEN <<>> ELSE raws

\* The merged Model with the raw documents it keeps.
withRaw(model, raws) ==
    ConfigurationModelOf(model.contents, model.keys, model.overrides, rawOfMerged(raws))

\* The merged Model keeps no raw document.
mergeDroppingRaw(model, others) ==
    withRaw(merge(model, others), <<>>)

\* ConfigurationModel.merge(...others), the raw documents included
mergeKeepingRaw(model, others) ==
    withRaw(merge(model, others), rawsOf(model) \o rawsOfAll(others))

\* The Model rawConfiguration makes of one entry of raw.
modelOfRaw(entry) ==
    IF "model" \in DOMAIN entry THEN entry.model
    ELSE parseRaw(<<>>, entry.document, NoOptions).configurationModel

\* rawConfigurationModels.reduce((previous, current) => ... previous.merge(current), ...)
RECURSIVE reduceMerge(_, _)
reduceMerge(previous, raws) ==
    IF raws = <<>> THEN previous
    ELSE reduceMerge(mergeKeepingRaw(previous, <<modelOfRaw(Head(raws))>>), Tail(raws))

\* ConfigurationModel.rawConfiguration
rawConfiguration(model) ==
    IF Len(model.raw) # 0 THEN reduceMerge(modelOfRaw(Head(model.raw)), Tail(model.raw))
    ELSE model

\* ConfigurationModel.getOverrideValue(section, overrideIdentifier)
getOverrideValue(model, section, overrideIdentifier) ==
    IF getContentsForOverrideIdentifer(model, overrideIdentifier) = Null THEN Undefined
    ELSE getConfigurationValue(getContentsForOverrideIdentifer(model, overrideIdentifier).object, section)

\* ConfigurationModel.inspect(section, overrideIdentifier): the value, the
\* override and the merged value; overrideIdentifier is Absent when not given.
inspect(model, section, overrideIdentifier) ==
    [value |-> modelGetValue(rawConfiguration(model), section),
     override |-> IF overrideIdentifier = Absent THEN Undefined
                  ELSE getOverrideValue(rawConfiguration(model), section, overrideIdentifier),
     merged |-> IF overrideIdentifier = Absent THEN modelGetValue(model, section)
                ELSE modelGetValue(override(model, overrideIdentifier), section)]

----------------------------------------------------------------------------
(* Parsing under options *)

\* The schema the documents are filtered against: "a.b" restricted with
\* application scope, "c" with resource scope, "d" with no scope declared.
ParserSchema ==
    <<Node(<<[Property(kAB, "number", Scalar(4), "APPLICATION", Absent, Absent) EXCEPT !.restricted = "true"],
             Property(kC, "number", Scalar(5), "RESOURCE", Absent, Absent),
             Property(kD, "number", Scalar(6), Absent, Absent, Absent)>>, <<>>)>>

\* The documents: the restricted key flat, nested under its prefix, inside an
\* override section, nested inside an override section; "e" is not registered.
Documents ==
    {(kAB :> Scalar(1)) @@ (kC :> Scalar(2)),
     (kA :> Object(kB :> Scalar(1))) @@ (kC :> Scalar(2)),
     (kTS :> Object((kAB :> Scalar(3)) @@ (kC :> Scalar(4)))) @@ (kD :> Scalar(5)),
     (kTS :> Object(kA :> Object(kB :> Scalar(3)))) @@ (kE :> Scalar(6)),
     (kC :> Scalar(2)) @@ (kE :> Scalar(6))}

OptionsPool ==
    {ParseOptions(scopes, skipRestricted, include, exclude) :
        scopes \in {NoScopes, <<"RESOURCE">>, <<"WINDOW">>},
        skipRestricted \in BOOLEAN,
        include \in {<<>>, <<kAB>>},
        exclude \in {<<>>, <<kC>>, <<kAB>>, <<kTS>>}}

\* The Models a parsed Model is merged with: they keep no raw document.
PartnerPool ==
    {ConfigurationModelOf(Shape(n, 7).contents, Shape(n, 7).keys, Shape(n, 7).overrides, <<>>) :
        n \in {1, 2, 4}}

\* parser.parseRaw(raw, options); the state keeps the options of the call.
ParseRaw(raw, options) ==
    /\ parser = Null
    /\ parser' = [options |-> options, parsed |-> parseRaw(configurationProperties, raw, options)]
    /\ UNCHANGED <<mergedParsed, confVars, mergeVars, eventVars, registryVars, editVars, heapVars>>

\* parser.configurationModel.merge(other), or other.merge(parser.configurationModel);
\* the state keeps the operands of the call with its result.
MergeParsed(other, parsedFirst) ==
    /\ parser # Null
    /\ mergedParsed = Null
    /\ mergedParsed' =
        [other |-> other, parsedFirst |-> parsedFirst,
         model |-> IF parsedFirst THEN mergeKeepingRaw(parser.parsed.configurationModel, <<other>>)
                                 ELSE mergeKeepingRaw(other, <<parser.parsed.configurationModel>>)]
    /\ UNCHANGED <<parser, confVars, mergeVars, eventVars, registryVars, editVars, heapVars>>

\* The registry after registerConfigurations(configurations).
RegistryIs(done, configurations) ==
    /\ configurationProperties = done.reg.configurationProperties
    /\ policyConfigurations = done.reg.policyConfigurations
    /\ excludedConfigurationProperties = done.reg.excludedConfigurationProperties
    /\ overrideIdentifiers = done.reg.overrideIdentifiers
    /\ configurationDefaultsOverrides = done.reg.configurationDefaultsOverrides
    /\ submitted = [configurations |-> configurations]
    /\ nodes = done.nodes
    /\ fired = done.fired
    /\ defaultConfigurationModel = createEmptyModel
    /\ defaultOverrides = <<>>
    /\ reloaded = FALSE

\* The documents are parsed after the schema is registered.
InitParse ==
    /\ EmptyConfiguration /\ InitMerge /\ InitEvent /\ InitHeapIdle /\ InitEdit /\ InitParser
    /\ RegistryIs(registerConfigurations(Registry(<<>>, <<>>, <<>>, {}, <<>>), ParserSchema, TRUE), ParserSchema)

ParseRawStep == \E raw \in Documents, options \in OptionsPool : ParseRaw(raw, options)

MergeParsedStep == \E other \in PartnerPool, parsedFirst \in BOOLEAN : MergeParsed(other, parsedFirst)

NextParse == ParseRawStep \/ MergeParsedStep

SpecParse == InitParse /\ [][NextParse]_vars


----------------------------------------------------------------------------
(* Claims on the parser *)

\* The keys registered as restricted.
restrictedKeys ==
    {configurationProperties[i].key : i \in {j \in 1..Len(configurationProperties) :
                                                configurationProperties[j].restricted = "true"}}

\* The Model resolves no value for the key, neither directly nor projected
\* on an override identifier.
resolvesNothing(model, key) ==
    /\ modelGetValue(model, key) = Undefined
    /\ \A identifier \in OverrideIdentifiers : modelGetValue(override(model, identifier), key) = Undefined

\* C21: a Model parsed with skipRestricted set resolves no value for a key
\* registered as restricted and not listed in include, whether the document
\* has the key at the top level or inside an override section, and wherever
\* in the document's tree the value sits.
C21_RestrictedNeverResolved ==
    (parser # Null /\ parser.options.skipRestricted) =>
        \A key \in restrictedKeys :
            indexOf(parser.options.include, key) = 0 =>
                resolvesNothing(parser.parsed.configurationModel, key)

\* The same for the documents that write the restricted key as one dotted key.
writtenAsKey(raw, key) ==
    \/ key \in DOMAIN raw
    \/ \E section \in DOMAIN raw : isObject(raw[section]) /\ key \in DOMAIN raw[section].object

C21_RestrictedKeyNeverResolved ==
    (parser # Null /\ parser.options.skipRestricted) =>
        \A key \in restrictedKeys :
            (indexOf(parser.options.include, key) = 0 /\ writtenAsKey(parser.parsed.raw, key)) =>
                resolvesNothing(parser.parsed.configurationModel, key)


\* Filtering is active: scopes are given, skipRestricted is set, or exclude
\* is not empty.
filteringActive(options) ==
    options.scopes # NoScopes \/ options.skipRestricted \/ options.exclude # <<>>

\* The scope a key is registered with, WINDOW when it declares none.
registeredScope(key) ==
    IF getProperty(configurationProperties, key).scope = Absent THEN "WINDOW"
    ELSE getProperty(configurationProperties, key).scope

inSeq(seq, x) == \E i \in 1..Len(seq) : seq[i] = x

\* The rule by which a key is to be kept.
keptByRule(options, key) ==
    /\ ~inSeq(options.exclude, key)
    /\ \/ inSeq(options.include, key)
       \/ /\ \/ ~hasProperty(configurationProperties, key)
             \/ options.scopes = NoScopes
             \/ inSeq(options.scopes, registeredScope(key))
          /\ ~(options.skipRestricted /\ key \in restrictedKeys)

\* The keys the parsed Model keeps of the section written under the key.
sectionKeys(model, key) ==
    IF key \in DOMAIN model.contents THEN DOMAIN fieldsOf(model.contents[key]) ELSE {}

\* The keys inside the section are kept by the rule.
sectionKeptByRule(key) ==
    \A inner \in DOMAIN fieldsOf(parser.parsed.raw[key]) :
        inner \in sectionKeys(parser.parsed.configurationModel, key) <=> keptByRule(parser.options, inner)

\* C22 as stated: under active filtering every key of the raw document, an
\* override-section key too, is kept exactly when the rule keeps it, and
\* so is every key inside an override section.
C22_KeptExactlyByRule ==
    (parser # Null /\ filteringActive(parser.options)) =>
        \A key \in DOMAIN parser.parsed.raw :
            /\ inSeq(parser.parsed.configurationModel.keys, key) <=> keptByRule(parser.options, key)
            /\ OVERRIDE_PROPERTY_REGEX_test(key) => sectionKeptByRule(key)

\* C22: under active filtering a key of the raw document that is not an
\* override-section key is kept exactly when it is not in exclude and either
\* is in include or passes the scope test (its registered scope, WINDOW when
\* none is declared, is among scopes, or the key is unregistered, or no
\* scopes are given) and is not a restricted key under skipRestricted; an
\* override-section key is always kept and the keys inside the section are
\* kept by the same rule.
C22_KeptByRuleSectionsAlways ==
    (parser # Null /\ filteringActive(parser.options)) =>
        \A key \in DOMAIN parser.parsed.raw :
            IF OVERRIDE_PROPERTY_REGEX_test(key)
                THEN /\ inSeq(parser.parsed.configurationModel.keys, key)
                     /\ sectionKeptByRule(key)
                ELSE inSeq(parser.parsed.configurationModel.keys, key) <=> keptByRule(parser.options, key)

\* A key listed in both include and exclude was dropped from an override
\* section that kept its other key.
C22_Witness ==
    /\ parser # Null
    /\ parser.options.include = <<kAB>>
    /\ parser.options.exclude = <<kAB>>
    /\ kTS \in DOMAIN parser.parsed.raw
    /\ kAB \in DOMAIN fieldsOf(parser.parsed.raw[kTS])
    /\ sectionKeys(parser.parsed.configurationModel, kTS) = {kC}


\* The keys the document has at its top level and the filter excluded.
excludedKeys ==
    {key \in DOMAIN parser.parsed.raw :
        ~OVERRIDE_PROPERTY_REGEX_test(key) /\ ~inSeq(parser.parsed.configurationModel.keys, key)}

\* The parsed Model resolves nothing for an excluded key and inspect reports
\* what the document gives it.
parsedInspectsRaw ==
    \A key \in excludedKeys :
        /\ modelGetValue(parser.parsed.configurationModel, key) = Undefined
        /\ inspect(parser.parsed.configurationModel, key, Absent).value = parser.parsed.raw[key]

\* The merged Model resolves an excluded key as the other Model does.
mergedResolvesOther ==
    \A key \in excludedKeys :
        modelGetValue(mergedParsed.model, key) = modelGetValue(mergedParsed.other, key)

----------------------------------------------------------------------------
(* Claims on the user layer *)

isScalar(value) == "scalar" \in DOMAIN value

\* The two Models resolve every key alike, directly and projected on every
\* override identifier.
resolveAlike(m1, m2) ==
    \A key \in QueryKeys :
        /\ modelGetValue(m1, key) = modelGetValue(m2, key)
        /\ \A identifier \in OverrideIdentifiers :
            modelGetValue(override(m1, identifier), key) = modelGetValue(override(m2, identifier), key)

\* C28: the user layer is the local user Model merged with the remote user
\* Model, the remote value winning for a scalar key both define; when the
\* remote Model is empty the user layer resolves every key as the local
\* Model does.
C28_UserIsLocalMergedWithRemote ==
    /\ \A key \in QueryKeys :
        (isScalar(modelGetValue(localUserConfiguration, key))
            /\ isScalar(modelGetValue(remoteUserConfiguration, key))) =>
                modelGetValue(getUserConfiguration(this), key) = modelGetValue(remoteUserConfiguration, key)
    /\ isEmpty(remoteUserConfiguration) =>
        resolveAlike(getUserConfiguration(this), localUserConfiguration)
    /\ resolveAlike(getUserConfiguration(this), merge(localUserConfiguration, <<remoteUserConfiguration>>))

\* Both Models define "c", the user layer has been computed and resolves "c"
\* to the remote value.
C28_Witness ==
    /\ modelGetValue(localUserConfiguration, kC) = Scalar(3)
    /\ modelGetValue(remoteUserConfiguration, kC) = Scalar(4)
    /\ userConfiguration # Null
    /\ modelGetValue(userConfiguration, kC) = Scalar(4)
    /\ modelGetValue(userConfiguration, kAB) = Scalar(3)


----------------------------------------------------------------------------
(* A Model under setValue and removeValue *)

kTSTS == <<"[", "t", "s", "]", "[", "t", "s", "]">>

\* The writes: a plain key and a key it is a dotted prefix of, and three
\* override-section keys, two of which name the same identifier.
EditInputs ==
    {<<kA, Scalar(1)>>, <<kAB, Scalar(2)>>,
     <<kTS, Object(kC :> Scalar(1))>>, <<kTS, Object(kD :> Scalar(2))>>,
     <<kPY, Object(kC :> Scalar(3))>>, <<kTSTS, Object(kD :> Scalar(4))>>}

EditKeys == {input[1] : input \in EditInputs}

\* model.setValue(key, value)
SetValue(key, value) ==
    /\ edits < MaxEdits
    /\ edits' = edits + 1
    /\ editedModel' = setValue(editedModel, key, value)
    /\ UNCHANGED <<confVars, mergeVars, eventVars, registryVars, parserVars, heapVars>>

\* model.removeValue(key)
RemoveValue(key) ==
    /\ edits < MaxEdits
    /\ edits' = edits + 1
    /\ editedModel' = removeValue(editedModel, key)
    /\ UNCHANGED <<confVars, mergeVars, eventVars, registryVars, parserVars, heapVars>>

InitEdits == EmptyConfiguration /\ InitMerge /\ InitEvent /\ InitHeapIdle /\ InitParser /\ InitEdit /\ InitRegistry

SetValueStep == \E input \in EditInputs : SetValue(input[1], input[2])

RemoveValueStep == \E key \in EditKeys : RemoveValue(key)

NextEdit == SetValueStep \/ RemoveValueStep

SpecEdit == InitEdits /\ [][NextEdit]_vars

----------------------------------------------------------------------------
(* Claims on setValue and removeValue *)

\* The override-section keys among the keys of the Model.
overrideKeysOf(model) ==
    {key \in {model.keys[i] : i \in 1..Len(model.keys)} : OVERRIDE_PROPERTY_REGEX_test(key)}

\* The sections the Model holds for the key: those with the key's identifiers
\* and with the contents stored under the key.
sectionsOf(model, key) ==
    {i \in 1..Len(model.overrides) :
        /\ model.overrides[i].identifiers = overrideIdentifiersFromKey(key)
        /\ key \in DOMAIN model.contents
        /\ model.overrides[i].contents = toValuesTree(fieldsOf(model.contents[key]))}

\* C23: after any sequence of setValue and removeValue calls from an empty
\* Model, overrides holds exactly one section for each override-section key
\* among keys, with the key's identifiers and the contents stored under the
\* key, and no section for a key that is absent.
C23_OneSectionPerOverrideKey ==
    /\ \A key \in overrideKeysOf(editedModel) : Cardinality(sectionsOf(editedModel, key)) = 1
    /\ \A i \in 1..Len(editedModel.overrides) :
        \E key \in overrideKeysOf(editedModel) : i \in sectionsOf(editedModel, key)

\* The section with the identifiers of the key, if any.
sectionNamed(model, key) ==
    {model.overrides[i] : i \in {j \in 1..Len(model.overrides) :
                                    model.overrides[j].identifiers = overrideIdentifiersFromKey(key)}}

\* C23, second part: removing one override-section key neither removes nor
\* alters the section of another key.
C23_RemovalLeavesOtherSections ==
    [][\A key \in EditKeys :
        (RemoveValue(key) /\ OVERRIDE_PROPERTY_REGEX_test(key)) =>
            \A other \in overrideKeysOf(editedModel) \ {key} :
                sectionNamed(editedModel', other) = sectionNamed(editedModel, other)]_vars


\* The dotted paths of the values of a tree: the non-object values and the
\* objects without properties.
RECURSIVE leafPaths(_, _)
leafPaths(tree, prefix) ==
    UNION {IF isObject(tree[name]) /\ DOMAIN tree[name].object # {}
                THEN leafPaths(tree[name].object, prefix \o name \o <<".">>)
                ELSE {prefix \o name} : name \in DOMAIN tree}

\* C24: after any sequence of setValue and removeValue calls, keys has no
\* duplicates, every key of keys resolves through getValue to a defined
\* value, and every value in contents lies under some key of keys, also
\* when one key is a dotted prefix of another.
C24_KeysAndContentsAgree ==
    /\ \A i, j \in 1..Len(editedModel.keys) : editedModel.keys[i] = editedModel.keys[j] => i = j
    /\ \A i \in 1..Len(editedModel.keys) : modelGetValue(editedModel, editedModel.keys[i]) # Undefined
    /\ \A path \in leafPaths(editedModel.contents, <<>>) :
        \E i \in 1..Len(editedModel.keys) : keyUnderSection(path, editedModel.keys[i])


----------------------------------------------------------------------------
(* Models as JavaScript holds them: objects and arrays that are reached by  *)
(* reference and changed in place.  The heap is a sequence of cells, the    *)
(* address of a cell is its index; a cell is [object |-> f], f a function   *)
(* from property names to values, or [array |-> s], s a sequence of values. *)
(* A value is a scalar, Undefined, [ref |-> address], [key |-> k] (a key in *)
(* a keys array) or [ids |-> s] (the identifiers of a section, which no     *)
(* operation changes).  A Model is [contents, keys, overrides], three       *)
(* addresses; a section is an object with the properties identifiers, keys  *)
(* and contents.  Cells are only ever added, as by `new`; nothing is        *)
(* collected.  An operation that makes cells returns [heap, value] or       *)
(* [heap, model]; one that only changes cells returns the heap.             *)

\* F applied to the value of e: the statements of the code run one after
\* the other, each on the heap the one before has left.
then(e, F(_)) == CHOOSE r \in {F(x) : x \in {e}} : TRUE

Ref(a) == [ref |-> a]
isRef(value) == "ref" \in DOMAIN value
isArray(cell) == "array" \in DOMAIN cell
Array(items) == [array |-> items]

pIdentifiers == <<"identifiers">>
pKeys == <<"keys">>
pContents == <<"contents">>

\* typeof value === 'object' for a value that is not null
refersToObject(h, value) == isRef(value) /\ isObject(h[value.ref])

\* new: the heap with one more cell, and the reference to it
alloc(h, cell) == [heap |-> Append(h, cell), value |-> Ref(Len(h) + 1)]

\* object[name] = value, in place
setField(h, a, name, value) == [h EXCEPT ![a] = Object(Ext(h[a].object, name, value))]

\* delete object[name], in place
deleteField(h, a, name) == [h EXCEPT ![a] = Object(Del(h[a].object, name))]

\* array.push(item), in place
push(h, a, item) == [h EXCEPT ![a] = Array(Append(h[a].array, item))]

\* array.splice(i, 1), in place; i = 0 stands for -1, which removes the last item
splice(h, a, i) ==
    [h EXCEPT ![a] = Array(SubSeq(h[a].array, 1, (IF i = 0 THEN Len(h[a].array) ELSE i) - 1)
                            \o SubSeq(h[a].array, (IF i = 0 THEN Len(h[a].array) ELSE i) + 1,
                                      Len(h[a].array)))]

\* What a copy has got so far: the heap and the properties, or the items.
withField(acc, name, made) == [heap |-> made.heap, fields |-> Ext(acc.fields, name, made.value)]
withItem(acc, made) == [heap |-> made.heap, items |-> Append(acc.items, made.value)]

allocObject(acc) == alloc(acc.heap, Object(acc.fields))
allocArray(acc) == alloc(acc.heap, Array(acc.items))

\* objects.deepClone(value): [heap, value]
RECURSIVE deepClone(_, _)
RECURSIVE deepCloneFields(_, _, _)
RECURSIVE deepCloneItems(_, _)

deepCloneFields(acc, names, fields) ==
    IF names = <<>> THEN acc
    ELSE then(withField(acc, Head(names), deepClone(acc.heap, fields[Head(names)])),
              LAMBDA next : deepCloneFields(next, Tail(names), fields))

deepCloneItems(acc, items) ==
    IF items = <<>> THEN acc
    ELSE then(withItem(acc, deepClone(acc.heap, Head(items))),
              LAMBDA next : deepCloneItems(next, Tail(items)))

deepClone(h, value) ==
    IF ~isRef(value) THEN [heap |-> h, value |-> value]
    ELSE IF isArray(h[value.ref])
        THEN allocArray(deepCloneItems([heap |-> h, items |-> <<>>], h[value.ref].array))
        ELSE allocObject(deepCloneFields([heap |-> h, fields |-> EmptyObject],
                                         enumerate(DOMAIN h[value.ref].object), h[value.ref].object))

\* The value is stored as it is, so that two objects share what it refers to.
shareValue(h, value) == [heap |-> h, value |-> value]

\* object[name] = <the value made>
store(made, a, name) == setField(made.heap, a, name, made.value)

\* ConfigurationModel.mergeContents(source, target) on the heap: source is
\* changed in place.
RECURSIVE heapMergeContents(_, _, _)
RECURSIVE heapMergeNames(_, _, _, _)

\* One iteration of the loop of mergeContents.
heapMergeName(h, source, target, name) ==
    IF /\ name \in DOMAIN h[source].object
       /\ refersToObject(h, h[source].object[name])
       /\ refersToObject(h, h[target].object[name])
        THEN heapMergeContents(h, h[source].object[name].ref, h[target].object[name].ref)
        ELSE store(deepClone(h, h[target].object[name]), source, name)

heapMergeNames(h, source, target, names) ==
    IF names = <<>> THEN h
    ELSE then(heapMergeName(h, source, target, Head(names)),
              LAMBDA next : heapMergeNames(next, source, target, Tail(names)))

heapMergeContents(h, source, target) ==
    heapMergeNames(h, source, target, enumerate(DOMAIN h[target].object))

\* The value a reference stands for, as a JSON value.
RECURSIVE jsonOf(_, _)
jsonOf(h, value) ==
    IF ~isRef(value) THEN value
    ELSE Object([name \in DOMAIN h[value.ref].object |-> jsonOf(h, h[value.ref].object[name])])

\* The keys an array of keys holds.
keysOfArray(h, a) == [i \in 1..Len(h[a].array) |-> h[a].array[i].key]

\* The section at an address as the record [identifiers, keys, contents].
sectionAt(h, a) ==
    [identifiers |-> h[a].object[pIdentifiers].ids,
     keys |-> keysOfArray(h, h[a].object[pKeys].ref),
     contents |-> jsonOf(h, h[a].object[pContents]).object]

\* The Model as a ConfigurationModel of values: what its getters return.
modelAt(h, model) ==
    ConfigurationModel(jsonOf(h, Ref(model.contents)).object,
                       keysOfArray(h, model.keys),
                       [i \in 1..Len(h[model.overrides].array) |->
                            sectionAt(h, h[model.overrides].array[i].ref)])

\* The addresses reached from a value.
RECURSIVE reach(_, _)
reach(h, value) ==
    IF ~isRef(value) THEN {}
    ELSE {value.ref} \cup
         (IF isArray(h[value.ref])
            THEN UNION {reach(h, h[value.ref].array[i]) : i \in 1..Len(h[value.ref].array)}
            ELSE UNION {reach(h, h[value.ref].object[name]) : name \in DOMAIN h[value.ref].object})

\* The addresses of the objects and arrays a Model is made of.
reachOfModel(h, model) ==
    reach(h, Ref(model.contents)) \cup reach(h, Ref(model.keys)) \cup reach(h, Ref(model.overrides))

\* A JSON value built on the heap: [heap, value]
RECURSIVE allocJson(_, _)
RECURSIVE allocJsonFields(_, _, _)

allocJsonFields(acc, names, fields) ==
    IF names = <<>> THEN acc
    ELSE then(withField(acc, Head(names), allocJson(acc.heap, fields[Head(names)])),
              LAMBDA next : allocJsonFields(next, Tail(names), fields))

allocJson(h, value) ==
    IF ~isObject(value) THEN [heap |-> h, value |-> value]
    ELSE allocObject(allocJsonFields([heap |-> h, fields |-> EmptyObject],
                                     enumerate(DOMAIN value.object), value.object))

\* An array of keys built on the heap.
allocKeys(h, keys) == alloc(h, Array([i \in 1..Len(keys) |-> [key |-> keys[i]]]))

\* { identifiers, keys, contents }
sectionCell(identifiers, keysRef, contentsRef) ==
    Object((pIdentifiers :> [ids |-> identifiers]) @@ (pKeys :> keysRef) @@ (pContents :> contentsRef))

\* A section built on the heap.
allocSection(h, section) ==
    then(allocJson(h, Object(section.contents)), LAMBDA contents :
    then(allocKeys(contents.heap, section.keys), LAMBDA keys :
    alloc(keys.heap, sectionCell(section.identifiers, keys.value, contents.value))))

RECURSIVE allocSections(_, _)
allocSections(acc, sections) ==
    IF sections = <<>> THEN acc
    ELSE then(withItem(acc, allocSection(acc.heap, Head(sections))),
              LAMBDA next : allocSections(next, Tail(sections)))

\* new ConfigurationModel(contents, keys, overrides) with the three made: [heap, model]
modelOf(h, contents, keys, overrides) ==
    [heap |-> h, model |-> [contents |-> contents.ref, keys |-> keys.ref, overrides |-> overrides.ref]]

\* A Model built on the heap from its contents, keys and override sections.
allocModel(h, model) ==
    then(allocJson(h, Object(model.contents)), LAMBDA contents :
    then(allocKeys(contents.heap, model.keys), LAMBDA keys :
    then(allocArray(allocSections([heap |-> keys.heap, items |-> <<>>], model.overrides)), LAMBDA overrides :
    modelOf(overrides.heap, contents.value, keys.value, overrides.value))))

\* ConfigurationModel.merge(...others) on the heap.

\* overrides.findIndex(o => arrays.equals(o.identifiers, identifiers)), 0 for -1
findSection(h, overrides, identifiers) ==
    IF \E i \in 1..Len(h[overrides].array) :
            h[h[overrides].array[i].ref].object[pIdentifiers].ids = identifiers
        THEN CHOOSE i \in 1..Len(h[overrides].array) :
                /\ h[h[overrides].array[i].ref].object[pIdentifiers].ids = identifiers
                /\ \A j \in 1..(i - 1) :
                    h[h[overrides].array[j].ref].object[pIdentifiers].ids # identifiers
        ELSE 0

RECURSIVE pushAll(_, _, _)
pushAll(h, a, items) ==
    IF items = <<>> THEN h
    ELSE then(push(h, a, Head(items)), LAMBDA next : pushAll(next, a, Tail(items)))

\* The then branch of the loop over other.overrides:
\* this.mergeContents(override.contents, otherOverride.contents);
\* override.keys.push(...otherOverride.keys); override.keys = arrays.distinct(override.keys)
mergeIntoSection(h, section, otherSection) ==
    then(heapMergeContents(h, h[section].object[pContents].ref, h[otherSection].object[pContents].ref),
         LAMBDA h1 :
    then(pushAll(h1, h1[section].object[pKeys].ref, h1[h1[otherSection].object[pKeys].ref].array),
         LAMBDA h2 :
    store(alloc(h2, Array(distinct(h2[h2[section].object[pKeys].ref].array))), section, pKeys)))

\* overrides.push(<the copy>)
pushMade(made, overrides) == push(made.heap, overrides, made.value)

\* One iteration of the loop over other.overrides.
heapMergeOverride(h, overrides, otherSection) ==
    then(findSection(h, overrides, h[otherSection].object[pIdentifiers].ids), LAMBDA index :
        IF index # 0 THEN mergeIntoSection(h, h[overrides].array[index].ref, otherSection)
                     ELSE pushMade(deepClone(h, Ref(otherSection)), overrides))

RECURSIVE heapMergeOverrides(_, _, _)
heapMergeOverrides(h, overrides, otherSections) ==
    IF otherSections = <<>> THEN h
    ELSE then(heapMergeOverride(h, overrides, Head(otherSections).ref),
              LAMBDA next : heapMergeOverrides(next, overrides, Tail(otherSections)))

\* The loop over other.keys.
RECURSIVE heapMergeKeys(_, _, _)
heapMergeKeys(h, keys, otherKeys) ==
    IF otherKeys = <<>> THEN h
    ELSE then(IF indexOf(h[keys].array, Head(otherKeys)) = 0 THEN push(h, keys, Head(otherKeys)) ELSE h,
              LAMBDA next : heapMergeKeys(next, keys, Tail(otherKeys)))

\* One iteration of the loop over others; result is the Model being made.
heapMergeOther(h, result, other) ==
    IF isEmpty(modelAt(h, other)) THEN h
    ELSE then(heapMergeContents(h, result.contents, other.contents), LAMBDA h1 :
         then(heapMergeOverrides(h1, result.overrides, h1[other.overrides].array), LAMBDA h2 :
         heapMergeKeys(h2, result.keys, h2[other.keys].array)))

RECURSIVE heapMergeOthers(_, _, _)
heapMergeOthers(h, result, others) ==
    IF others = <<>> THEN h
    ELSE then(heapMergeOther(h, result, Head(others)),
              LAMBDA next : heapMergeOthers(next, result, Tail(others)))

\* The loop over others and the Model returned.
mergedWith(made, others) == [heap |-> heapMergeOthers(made.heap, made.model, others), model |-> made.model]

\* The contents are not cloned: the result is built on the first operand's
\* own contents.
heapMergeInPlace(h, model, others) ==
    then(deepClone(h, Ref(model.overrides)), LAMBDA overrides :
    then(alloc(overrides.heap, overrides.heap[model.keys]), LAMBDA keys :
    mergedWith(modelOf(keys.heap, Ref(model.contents), keys.value, overrides.value), others)))

\* model.merge(...others): [heap, model]
heapMerge(h, model, others) ==
    then(deepClone(h, Ref(model.contents)), LAMBDA contents :
    then(deepClone(contents.heap, Ref(model.overrides)), LAMBDA overrides :
    then(alloc(overrides.heap, overrides.heap[model.keys]), LAMBDA keys :
    mergedWith(modelOf(keys.heap, contents.value, keys.value, overrides.value), others))))

\* addToValueTree(root, key, value) on the heap: the tree is changed in
\* place and the value is stored as it is.
RECURSIVE heapAddSegments(_, _, _, _)
heapAddSegments(h, curr, segments, value) ==
    IF Len(segments) = 1 THEN setField(h, curr, Head(segments), value)
    ELSE IF /\ Head(segments) \in DOMAIN h[curr].object
            /\ refersToObject(h, h[curr].object[Head(segments)])
        THEN heapAddSegments(h, h[curr].object[Head(segments)].ref, Tail(segments), value)
        ELSE then(alloc(h, Object(EmptyObject)), LAMBDA obj :
                heapAddSegments(store(obj, curr, Head(segments)), obj.value.ref, Tail(segments), value))

heapAddToValueTree(h, root, key, value) == heapAddSegments(h, root, split(key, "."), value)

\* removeFromValueTree(valueTree, key) on the heap
RECURSIVE heapRemoveSegments(_, _, _)
heapRemoveSegments(h, valueTree, segments) ==
    IF Len(segments) = 1 THEN deleteField(h, valueTree, Head(segments))
    ELSE IF /\ Head(segments) \in DOMAIN h[valueTree].object
            /\ refersToObject(h, h[valueTree].object[Head(segments)])
        THEN then(heapRemoveSegments(h, h[valueTree].object[Head(segments)].ref, Tail(segments)),
                  LAMBDA h1 :
                    IF DOMAIN h1[h[valueTree].object[Head(segments)].ref].object = {}
                        THEN deleteField(h1, valueTree, Head(segments))
                        ELSE h1)
        ELSE h

heapRemoveFromValueTree(h, valueTree, key) == heapRemoveSegments(h, valueTree, split(key, "."))

\* The properties of the object a value refers to, none for any other value.
fieldsAt(h, value) == IF refersToObject(h, value) THEN h[value.ref].object ELSE EmptyObject

\* toValuesTree(properties) on the heap: a new tree that holds the values of
\* the properties as they are.
RECURSIVE heapAddProperties(_, _, _, _)
heapAddProperties(h, root, names, fields) ==
    IF names = <<>> THEN h
    ELSE then(heapAddToValueTree(h, root, Head(names), fields[Head(names)]),
              LAMBDA next : heapAddProperties(next, root, Tail(names), fields))

heapToValuesTree(h, fields) ==
    then(alloc(h, Object(EmptyObject)), LAMBDA root :
        [heap |-> heapAddProperties(root.heap, root.value.ref, enumerate(DOMAIN fields), fields),
         value |-> root.value])

\* const override = { identifiers, keys: Object.keys(this.contents[key]), contents: toValuesTree(...) }
newOverride(h, key, fields) ==
    then(allocKeys(h, enumerate(DOMAIN fields)), LAMBDA keys :
    then(heapToValuesTree(keys.heap, fields), LAMBDA contents :
    alloc(contents.heap, sectionCell(overrideIdentifiersFromKey(key), keys.value, contents.value))))

\* this.overrides[index] = override, or this.overrides.push(override)
storeOverride(made, overrides, index) ==
    IF index # 0
        THEN [made.heap EXCEPT ![overrides] = Array([@.array EXCEPT ![index] = made.value])]
        ELSE push(made.heap, overrides, made.value)

\* ConfigurationModel.updateValue(key, value, false) with the value on the heap
heapUpdateValue(h, model, key, value) ==
    then(heapAddToValueTree(h, model.contents, key, value), LAMBDA h1 :
    then(IF indexOf(h1[model.keys].array, [key |-> key]) = 0
            THEN push(h1, model.keys, [key |-> key]) ELSE h1, LAMBDA h2 :
    IF OVERRIDE_PROPERTY_REGEX_test(key)
        THEN storeOverride(newOverride(h2, key, fieldsAt(h2, h2[model.contents].object[key])),
                           model.overrides,
                           findSection(h2, model.overrides, overrideIdentifiersFromKey(key)))
        ELSE h2))

\* model.setValue(key, value), the caller having made the value: the heap
\* after the call
heapSetValue(h, model, key, value) ==
    then(allocJson(h, value), LAMBDA made : heapUpdateValue(made.heap, model, key, made.value))

\* model.removeValue(key): the heap after the call
heapRemoveValue(h, model, key) ==
    IF indexOf(h[model.keys].array, [key |-> key]) = 0 THEN h
    ELSE then(splice(h, model.keys, indexOf(h[model.keys].array, [key |-> key])), LAMBDA h1 :
         then(heapRemoveFromValueTree(h1, model.contents, key), LAMBDA h2 :
         IF OVERRIDE_PROPERTY_REGEX_test(key)
            THEN splice(h2, model.overrides,
                        findSection(h2, model.overrides, overrideIdentifiersFromKey(key)))
            ELSE h2))

\* getContentsForOverrideIdentifer(identifier) on the heap.  The state of the
\* loop is [heap, contents, only]: the addresses of contents and of
\* contentsForIdentifierOnly, 0 for null.

\* The local function mergeContents of getContentsForOverrideIdentifer.
mergeOverrideContents(acc, contentsToMerge) ==
    IF contentsToMerge = 0 THEN acc
    ELSE IF acc.contents # 0
        THEN [acc EXCEPT !.heap = heapMergeContents(acc.heap, acc.contents, contentsToMerge)]
        ELSE then(deepClone(acc.heap, Ref(contentsToMerge)), LAMBDA made :
                [acc EXCEPT !.heap = made.heap, !.contents = made.value.ref])

\* One iteration of the loop over this.overrides.
scanSection(acc, identifiers, contents, identifier) ==
    IF Len(identifiers) = 1 /\ identifiers[1] = identifier THEN [acc EXCEPT !.only = contents]
    ELSE IF indexOf(identifiers, identifier) # 0 THEN mergeOverrideContents(acc, contents)
    ELSE acc

RECURSIVE scanSections(_, _, _)
scanSections(acc, sections, identifier) ==
    IF sections = <<>> THEN acc
    ELSE then(scanSection(acc, acc.heap[Head(sections).ref].object[pIdentifiers].ids,
                          acc.heap[Head(sections).ref].object[pContents].ref, identifier),
              LAMBDA next : scanSections(next, Tail(sections), identifier))

heapContentsForOverrideIdentifer(h, model, identifier) ==
    then(scanSections([heap |-> h, contents |-> 0, only |-> 0], h[model.overrides].array, identifier),
         LAMBDA acc : mergeOverrideContents(acc, acc.only))

\* createOverrideConfigurationModel(identifier) on the heap.

\* object[key], undefined when the object has no such property
fieldOr(h, a, name) == IF name \in DOMAIN h[a].object THEN h[a].object[name] ELSE Undefined

\* this.mergeContents(contentsForKey, overrideContentsForKey), contentsForKey made
mergedInto(made, overrideContentsForKey) ==
    [heap |-> heapMergeContents(made.heap, made.value.ref, overrideContentsForKey.ref),
     value |-> made.value]

\* The base value is merged into without being cloned first.
contentsForKeyInPlace(h, contentsForKey, overrideContentsForKey) ==
    IF truthy(overrideContentsForKey)
        THEN IF refersToObject(h, contentsForKey) /\ refersToObject(h, overrideContentsForKey)
                THEN mergedInto(shareValue(h, contentsForKey), overrideContentsForKey)
                ELSE [heap |-> h, value |-> overrideContentsForKey]
        ELSE [heap |-> h, value |-> contentsForKey]

\* The value the projection gets for one top-level key: [heap, value]
contentsForKeyOf(h, contentsForKey, overrideContentsForKey) ==
    IF truthy(overrideContentsForKey)
        THEN IF refersToObject(h, contentsForKey) /\ refersToObject(h, overrideContentsForKey)
                THEN then(deepClone(h, contentsForKey),
                          LAMBDA made : mergedInto(made, overrideContentsForKey))
                ELSE [heap |-> h, value |-> overrideContentsForKey]
        ELSE [heap |-> h, value |-> contentsForKey]

\* The loop of createOverrideConfigurationModel: contents[key] = contentsForKey
RECURSIVE projectKeys(_, _, _, _, _)
projectKeys(h, contents, names, base, overrideContents) ==
    IF names = <<>> THEN h
    ELSE then(store(contentsForKeyOf(h, fieldOr(h, base, Head(names)),
                                     fieldOr(h, overrideContents, Head(names))),
                    contents, Head(names)),
              LAMBDA next : projectKeys(next, contents, Tail(names), base, overrideContents))

\* model.override(identifier): [heap, model]; the Model itself when no
\* section gives the identifier any contents
heapOverride(h, model, identifier) ==
    then(heapContentsForOverrideIdentifer(h, model, identifier), LAMBDA found :
        IF found.contents = 0 \/ DOMAIN found.heap[found.contents].object = {}
            THEN [heap |-> found.heap, model |-> model]
            ELSE then(alloc(found.heap, Object(EmptyObject)), LAMBDA contents :
                    modelOf(projectKeys(contents.heap, contents.value.ref,
                                        enumerate((DOMAIN contents.heap[model.contents].object)
                                                    \cup (DOMAIN contents.heap[found.contents].object)),
                                        model.contents, found.contents),
                            contents.value, Ref(model.keys), Ref(model.overrides))))

----------------------------------------------------------------------------
(* Frozen objects                                                           *)

\* objects.deepFreeze(value): the objects and arrays frozen, which are all
\* those reached from the value.
deepFreeze(h, value) == reach(h, value)

\* freeze(data): Object.isFrozen(data) ? data : objects.deepFreeze(data); the
\* frozen addresses after the call.  A value that is no object is frozen as
\* it is.
freeze(h, frozen, value) ==
    IF isRef(value) THEN frozen \cup deepFreeze(h, value) ELSE frozen

\* getConfigurationValue(contents, section) on the heap: the value itself,
\* which is a reference when the section holds an object.
RECURSIVE heapAccessSetting(_, _, _)
heapAccessSetting(h, value, segments) ==
    IF segments = <<>> THEN value
    ELSE IF refersToObject(h, value) /\ Head(segments) \in DOMAIN h[value.ref].object
        THEN heapAccessSetting(h, h[value.ref].object[Head(segments)], Tail(segments))
    ELSE Undefined

\* The object addToValueTree assigns to first: the one that lacks a segment
\* of the key, or the one that gets the value.
RECURSIVE writeCell(_, _, _)
writeCell(h, curr, segments) ==
    IF Len(segments) = 1 THEN curr
    ELSE IF /\ Head(segments) \in DOMAIN h[curr].object
            /\ refersToObject(h, h[curr].object[Head(segments)])
        THEN writeCell(h, h[curr].object[Head(segments)].ref, Tail(segments))
    ELSE curr

\* The object removeFromValueTree deletes from first, 0 when it deletes nothing.
RECURSIVE deleteCell(_, _, _)
deleteCell(h, valueTree, segments) ==
    IF Len(segments) = 1
        THEN IF Head(segments) \in DOMAIN h[valueTree].object THEN valueTree ELSE 0
    ELSE IF /\ Head(segments) \in DOMAIN h[valueTree].object
            /\ refersToObject(h, h[valueTree].object[Head(segments)])
        THEN deleteCell(h, h[valueTree].object[Head(segments)].ref, Tail(segments))
    ELSE 0

\* updateValue after an addToValueTree that has written nothing: the key is
\* pushed when it is not among the keys, and the section of an override key
\* that the contents hold is made anew.
heapRecordKey(h, model, key) ==
    then(IF indexOf(h[model.keys].array, [key |-> key]) = 0
            THEN push(h, model.keys, [key |-> key]) ELSE h, LAMBDA h2 :
    IF OVERRIDE_PROPERTY_REGEX_test(key) /\ key \in DOMAIN h2[model.contents].object
        THEN storeOverride(newOverride(h2, key, fieldsAt(h2, h2[model.contents].object[key])),
                           model.overrides,
                           findSection(h2, model.overrides, overrideIdentifiersFromKey(key)))
        ELSE h2)

\* model.setValue(key, value) with frozen objects about: the heaps the call
\* may leave.  An assignment to a frozen object writes nothing and raises a
\* TypeError; either addToValueTree reports it and updateValue goes on, or
\* the call ends there.
heapSetValueOutcomes(h, frozen, model, key, value) ==
    IF writeCell(h, model.contents, split(key, ".")) \notin frozen
        THEN {heapSetValue(h, model, key, value)}
        ELSE {allocJson(h, value).heap, heapRecordKey(allocJson(h, value).heap, model, key)}

\* model.removeValue(key) with frozen objects about: the heap after the
\* call.  A delete on a frozen object raises a TypeError, after the key has
\* been spliced from the keys.
heapRemoveValueFrozen(h, frozen, model, key) ==
    IF deleteCell(h, model.contents, split(key, ".")) \notin frozen
        THEN heapRemoveValue(h, model, key)
    ELSE IF indexOf(h[model.keys].array, [key |-> key]) = 0 THEN h
    ELSE splice(h, model.keys, indexOf(h[model.keys].array, [key |-> key]))

----------------------------------------------------------------------------
(* Merge, override, setValue and removeValue on Models that are changed in  *)
(* place                                                                    *)

\* The Models M1 and M2 are made of: empty; "a.b", "a.d", "c"; a section for
\* "ts" with "a.b"; and both.
HeapShapes == {1, 6, 9, 16}

\* The writes made on the Models.
HeapInputs == {<<kAB, Scalar(5)>>, <<kTS, Object(kC :> Scalar(6))>>}

HeapKeys == {input[1] : input \in HeapInputs}

HeapIdentifiers == {idTS, idPY}

\* The Models of the state by name.
HeapTargets ==
    {"this", "other"} \cup (IF heapMerged # Null THEN {"merged"} ELSE {})
        \cup (IF heapProjection # Null THEN {"projection"} ELSE {})

heapModel(target) ==
    CASE target = "this" -> heapOperands[1]
      [] target = "other" -> heapOperands[2]
      [] target = "merged" -> heapMerged
      [] target = "projection" -> heapProjection.model

\* Two Models built one after the other: [heap, models]
allocTwo(m1, m2) ==
    then(allocModel(<<>>, m1), LAMBDA first :
    then(allocModel(first.heap, m2), LAMBDA second :
    [heap |-> second.heap, models |-> <<first.model, second.model>>]))

HeapIs(done) == heap = done.heap /\ heapOperands = done.models

InitHeap ==
    /\ EmptyConfiguration /\ InitMerge /\ InitEvent /\ InitParser /\ InitEdit /\ InitRegistry
    /\ \E n1 \in HeapShapes, n2 \in HeapShapes : HeapIs(allocTwo(Shape(n1, 1), Shape(n2, 2)))
    /\ heapMerged = Null
    /\ heapProjection = Null
    /\ heapEdits = 0
    /\ heapFrozen = {}
    /\ heapInspected = {}

HeapMergeBecomes(done) == heap' = done.heap /\ heapMerged' = done.model

\* M1.merge(M2)
HeapMerge ==
    /\ heapMerged = Null
    /\ HeapMergeBecomes(heapMerge(heap, heapOperands[1], <<heapOperands[2]>>))
    /\ UNCHANGED <<heapOperands, heapProjection, heapEdits, heapFrozen, heapInspected,
                   confVars, mergeVars, eventVars, registryVars, parserVars, editVars>>

HeapProjectionBecomes(done, base, identifier) ==
    /\ heap' = done.heap
    /\ heapProjection' = [identifier |-> identifier, base |-> base, model |-> done.model]

\* overrideConfigurations.get(identifier) of base finds the projection made
\* before: override returns it and changes nothing.
HeapOverrideCached(base, identifier) ==
    /\ heapProjection # Null
    /\ heapProjection.base = base
    /\ heapProjection.identifier = identifier
    /\ UNCHANGED vars

\* base.override(identifier), base being M1 or the merged Model;
\* heapProjection is the entry of overrideConfigurations, of which the model
\* holds one.
HeapOverride(base, identifier) ==
    \/ /\ heapProjection = Null
       /\ base \in HeapTargets
       /\ HeapProjectionBecomes(heapOverride(heap, heapModel(base), identifier), base, identifier)
       /\ UNCHANGED <<heapOperands, heapMerged, heapEdits, heapFrozen, heapInspected,
                      confVars, mergeVars, eventVars, registryVars, parserVars, editVars>>
    \/ HeapOverrideCached(base, identifier)

\* target.setValue(key, value)
HeapSetValue(target, key, value) ==
    /\ heapEdits < MaxHeapEdits
    /\ target \in HeapTargets
    /\ heapEdits' = heapEdits + 1
    /\ heap' \in heapSetValueOutcomes(heap, heapFrozen, heapModel(target), key, value)
    /\ UNCHANGED <<heapOperands, heapMerged, heapProjection, heapFrozen, heapInspected,
                   confVars, mergeVars, eventVars, registryVars, parserVars, editVars>>

\* target.removeValue(key)
HeapRemoveValue(target, key) ==
    /\ heapEdits < MaxHeapEdits
    /\ target \in HeapTargets
    /\ heapEdits' = heapEdits + 1
    /\ heap' = heapRemoveValueFrozen(heap, heapFrozen, heapModel(target), key)
    /\ UNCHANGED <<heapOperands, heapMerged, heapProjection, heapFrozen, heapInspected,
                   confVars, mergeVars, eventVars, registryVars, parserVars, editVars>>

TargetNames == {"this", "other", "merged", "projection"}

HeapOverrideStep ==
    \E base \in {"this", "merged"}, identifier \in HeapIdentifiers : HeapOverride(base, identifier)

HeapSetValueStep ==
    \E target \in TargetNames, input \in HeapInputs : HeapSetValue(target, input[1], input[2])

HeapRemoveValueStep == \E target \in TargetNames, key \in HeapKeys : HeapRemoveValue(target, key)

NextHeap == HeapMerge \/ HeapOverrideStep \/ HeapSetValueStep \/ HeapRemoveValueStep

SpecHeap == InitHeap /\ [][NextHeap]_vars

----------------------------------------------------------------------------
(* Claims on merge and override as to what they leave alone *)

\* What the Models on the heap return agrees with the operations on values.
HeapAgreesWithValues ==
    /\ heapEdits = 0 /\ heapMerged # Null =>
        modelAt(heap, heapMerged) = merge(modelAt(heap, heapOperands[1]), <<modelAt(heap, heapOperands[2])>>)
    /\ heapEdits = 0 /\ heapProjection # Null =>
        modelAt(heap, heapProjection.model)
            = override(modelAt(heap, heapModel(heapProjection.base)), heapProjection.identifier)

\* setValue or removeValue on the named Model
HeapEdit(target) ==
    \/ \E input \in HeapInputs : HeapSetValue(target, input[1], input[2])
    \/ \E key \in HeapKeys : HeapRemoveValue(target, key)

\* The operand returns after the step what it returned before.
operandKept(i) == modelAt(heap', heapOperands[i]) = modelAt(heap, heapOperands[i])

\* No object or array of the result is one of the operand.
sharesNothing(i) == reachOfModel(heap', heapMerged') \cap reachOfModel(heap', heapOperands[i]) = {}

\* C25: M1.merge(M2) leaves the contents, keys and override sections of M1
\* and of M2 as they were, and no object or array of the result is one of M1
\* or of M2; a later setValue or removeValue on M1 or on M2 changes nothing
\* the result returns, and one on the result changes nothing M1 and M2 return.
C25_MergeIsNonDestructive ==
    [][/\ HeapMerge => \A i \in {1, 2} : operandKept(i) /\ sharesNothing(i)
       /\ heapMerged # Null /\ (HeapEdit("this") \/ HeapEdit("other")) =>
            modelAt(heap', heapMerged) = modelAt(heap, heapMerged)
       /\ heapMerged # Null /\ HeapEdit("merged") => \A i \in {1, 2} : operandKept(i)]_vars

\* M1 and M2 both have contents and a section, they were merged, and an
\* edit made since has changed what M1 returns, so that the result is no
\* longer the merge of what M1 and M2 return.
C25_Witness ==
    /\ heapMerged # Null
    /\ heapEdits > 0
    /\ \A i \in {1, 2} : heap[heapOperands[i].overrides].array # <<>> /\ heap[heapOperands[i].keys].array # <<>>
    /\ modelAt(heap, heapMerged) # merge(modelAt(heap, heapOperands[1]), <<modelAt(heap, heapOperands[2])>>)
    /\ modelAt(heap, heapOperands[1]) # Shape(16, 1)


\* result is the recursive merge of the objects base and over: it has the
\* names of both; a name of over has over's value, merged in the same way
\* where base has an object for it as well; a name of base alone has base's
\* value.
RECURSIVE mergedLeafwise(_, _, _)
mergedLeafwise(result, base, over) ==
    /\ isObject(result)
    /\ DOMAIN result.object = (DOMAIN base.object) \cup (DOMAIN over.object)
    /\ \A name \in DOMAIN result.object :
        IF name \notin DOMAIN over.object THEN result.object[name] = base.object[name]
        ELSE IF name \in DOMAIN base.object /\ isObject(base.object[name]) /\ isObject(over.object[name])
            THEN mergedLeafwise(result.object[name], base.object[name], over.object[name])
            ELSE result.object[name] = over.object[name]

\* The top-level keys for which the base contents and the contents the
\* sections give the identifier both have an object.
bothObjects(contents, overrideContents) ==
    {name \in (DOMAIN contents) \cap (DOMAIN overrideContents) :
        isObject(contents[name]) /\ isObject(overrideContents[name])}

\* The contents the sections of the Model give the identifier, none where
\* no section does.
overrideContentsOf(model, identifier) ==
    IF getContentsForOverrideIdentifer(model, identifier) = Null THEN EmptyObject
    ELSE getContentsForOverrideIdentifer(model, identifier).object

projectedLeafwise(projected, contents, overrideContents) ==
    \A name \in bothObjects(contents, overrideContents) :
        mergedLeafwise(projected[name], contents[name], overrideContents[name])

\* C26: base.override(identifier) gives every top-level key for which the
\* base and the sections of the identifier both have an object the recursive
\* merge of the two, the override's value winning leaf by leaf and the leaves
\* of the base alone kept, and the contents of the base are after the call
\* what they were before it.
C26_OverrideMergesLeafwise ==
    [][\A base \in {"this", "merged"}, identifier \in HeapIdentifiers :
        (heapProjection = Null /\ HeapOverride(base, identifier)) =>
            /\ modelAt(heap', heapModel(base)).contents = modelAt(heap, heapModel(base)).contents
            /\ projectedLeafwise(modelAt(heap', heapProjection'.model).contents,
                                 modelAt(heap, heapModel(base)).contents,
                                 overrideContentsOf(modelAt(heap, heapModel(base)), heapProjection'.identifier))]_vars

\* A projection of a Model in which "a" is an object in the contents and in
\* the section of the identifier: the projection has "a.b" from the section
\* and "a.d" from the base, and the two differ from each other.
C26_Witness ==
    /\ heapProjection # Null
    /\ heapEdits = 0
    /\ kA \in bothObjects(modelAt(heap, heapModel(heapProjection.base)).contents,
                         overrideContentsOf(modelAt(heap, heapModel(heapProjection.base)),
                                            heapProjection.identifier))
    /\ modelGetValue(modelAt(heap, heapProjection.model), kAB)
        = overrideContentsOf(modelAt(heap, heapModel(heapProjection.base)), heapProjection.identifier)[kA].object[kB]
    /\ modelGetValue(modelAt(heap, heapProjection.model), kAB) # modelGetValue(modelAt(heap, heapModel(heapProjection.base)), kAB)
    /\ modelGetValue(modelAt(heap, heapProjection.model), kAD) = modelGetValue(modelAt(heap, heapModel(heapProjection.base)), kAD)
    /\ modelGetValue(modelAt(heap, heapProjection.model), kAD) # Undefined


----------------------------------------------------------------------------
(* Successive registerDefaultConfigurations calls *)

\* A call with one { overrides: { [key]: value }, source }
DefaultsFor(key, value, source) == <<[overrides |-> <<<<key, value>>>>, source |-> source]>>

\* The calls for the plain key "c": objects with a nested object, flat
\* objects and numbers, with and without a source.
PlainDefaults ==
    {DefaultsFor(kC, Object(kA :> Object(kB :> Scalar(1))), "ext1"),
     DefaultsFor(kC, Object(kA :> Object(kD :> Scalar(2))), "ext2"),
     DefaultsFor(kC, Object(kB :> Scalar(3)), Absent),
     DefaultsFor(kC, Object(kB :> Scalar(4)), "ext1"),
     DefaultsFor(kC, Scalar(5), "ext2"),
     DefaultsFor(kC, Scalar(6), Absent)}

\* The calls for the override-identifier key "[ts]".
IdentifierDefaults ==
    {DefaultsFor(kTS, Object(kC :> Object(kA :> Scalar(1))), "ext1"),
     DefaultsFor(kTS, Object((kC :> Object(kA :> Scalar(2))) @@ (kD :> Scalar(7))), Absent),
     DefaultsFor(kTS, Object(kC :> Object(kB :> Scalar(3))), "ext2"),
     DefaultsFor(kTS, Object(kD :> Scalar(8)), "ext2")}

\* The schemas "c" may be registered with.
DefaultsProperties ==
    {Property(kC, "object", Undefined, Absent, Absent, Absent),
     Property(kC, "number", Undefined, Absent, Absent, Absent)}

InitDefaults == InitRegistration /\ defaultOverrides = <<>>

RegisterPlainDefaultsStep ==
    \E configurationDefaults \in PlainDefaults : RegisterDefaultConfigurations(configurationDefaults)

RegisterIdentifierDefaultsStep ==
    \E configurationDefaults \in IdentifierDefaults : RegisterDefaultConfigurations(configurationDefaults)

RegisterPropertyStep ==
    \E property \in DefaultsProperties : RegisterConfigurations(<<Node(<<property>>, <<>>)>>)

NextDefaults == RegisterPlainDefaultsStep \/ RegisterIdentifierDefaultsStep \/ RegisterPropertyStep

SpecDefaults == InitDefaults /\ [][NextDefaults]_vars

----------------------------------------------------------------------------
(* Claims on the merging of defaults, under SpecDefaults *)

\* The key, the value and the source of a call of the pools.
keyOf(configurationDefaults) == configurationDefaults[1].overrides[1][1]
valueOf(configurationDefaults) == configurationDefaults[1].overrides[1][2]
sourceOf(configurationDefaults) == configurationDefaults[1].source

\* The value a call makes of the default override there was: the recursive
\* merge where both are objects, the value of the call otherwise.
deepMergedOnto(existing, new, value) ==
    /\ new # Undefined
    /\ IF existing # Undefined /\ isObject(existing.value) /\ isObject(value)
        THEN mergedLeafwise(new.value, existing.value, value)
        ELSE new.value = value

\* C29: a registerDefaultConfigurations call for a plain key leaves as its
\* default override the deep merge of the default override there was and
\* the value of the call when both are objects (every leaf of the call's
\* value at every depth, every other leaf as it was), and the value of the
\* call when one of the two is not an object.
C29_DefaultsDeepMerged ==
    [][\A configurationDefaults \in PlainDefaults :
        RegisterDefaultConfigurations(configurationDefaults) =>
            deepMergedOnto(defaultOverrideValue(configurationRegistry, keyOf(configurationDefaults)),
                           defaultOverrideValue(configurationRegistry', keyOf(configurationDefaults)),
                           valueOf(configurationDefaults))]_vars

\* The sub-paths of the properties a call writes: one for each property of
\* an object, the name itself for any other value.
writtenUnder(prefix, value) ==
    IF isObject(value) THEN {subPath(prefix, objectKey) : objectKey \in DOMAIN value.object}
    ELSE {prefix}

writtenPaths(key, value) ==
    IF OVERRIDE_PROPERTY_REGEX_test(key)
        THEN UNION {writtenUnder(propertyKey, value.object[propertyKey]) : propertyKey \in DOMAIN value.object}
        ELSE writtenUnder(key, value)

\* The mapping names the source for every path written, or has no entry for
\* it when the call has no source.
recordsWriter(source, paths, valueSource) ==
    /\ isSourceMap(source)
    /\ \A path \in paths :
        IF valueSource = Absent THEN path \notin DOMAIN source.map
        ELSE path \in DOMAIN source.map /\ source.map[path] = valueSource

\* C30: after a registerDefaultConfigurations call that leaves an
\* object-valued default override, the provenance mapping of the override
\* has, under the sub-path of every property the call has written, the
\* source of the call, and no entry there when the call has no source (an
\* entry would name the source of a value that has been overwritten).
C30_ProvenancePerLeaf ==
    [][\A configurationDefaults \in PlainDefaults \cup IdentifierDefaults :
        /\ RegisterDefaultConfigurations(configurationDefaults)
        /\ isObject(valueOf(configurationDefaults))
        => LET new == defaultOverrideValue(configurationRegistry', keyOf(configurationDefaults))
           IN  /\ new # Undefined
               /\ isObject(new.value)
               /\ recordsWriter(new.source,
                                writtenPaths(keyOf(configurationDefaults), valueOf(configurationDefaults)),
                                sourceOf(configurationDefaults))]_vars


\* The value of one setting after a registration that gives it: the value
\* given, merged name by name onto the value there was when both are
\* objects.
settingMerged(result, existing, given) ==
    IF isObject(given) /\ existing # Undefined /\ isObject(existing)
        THEN /\ isObject(result)
             /\ DOMAIN result.object = (DOMAIN existing.object) \cup (DOMAIN given.object)
             /\ \A name \in DOMAIN result.object :
                    result.object[name] = IF name \in DOMAIN given.object
                                            THEN given.object[name] ELSE existing.object[name]
        ELSE result = given

\* The settings of a section after a registration: those given merged onto
\* those there were, the others as they were.
settingsMerged(result, existing, given) ==
    /\ DOMAIN result = (DOMAIN existing) \cup (DOMAIN given)
    /\ \A setting \in DOMAIN result :
        IF setting \in DOMAIN given
            THEN settingMerged(result[setting],
                               IF setting \in DOMAIN existing THEN existing[setting] ELSE Undefined,
                               given[setting])
            ELSE result[setting] = existing[setting]

\* The default of the property registered under the key, no settings when
\* there is no such property.
settingsOf(properties, key) ==
    IF hasProperty(properties, key) THEN fieldsOf(getProperty(properties, key).default) ELSE EmptyObject

\* C31: after registerDefaultConfigurations with an override-section key,
\* getConfigurationProperties() has a property of type object under the key
\* whose default is the settings the call gives merged onto the default
\* there was under the key (the later registration winning setting by
\* setting), and the identifiers of the key are among the registered
\* override identifiers, with those that were registered before.
C31_SyntheticPropertyIsMergedDefault ==
    [][\A configurationDefaults \in IdentifierDefaults :
        RegisterDefaultConfigurations(configurationDefaults) =>
            /\ hasProperty(configurationProperties', keyOf(configurationDefaults))
            /\ getProperty(configurationProperties', keyOf(configurationDefaults)).type = "object"
            /\ isObject(getProperty(configurationProperties', keyOf(configurationDefaults)).default)
            /\ settingsMerged(settingsOf(configurationProperties', keyOf(configurationDefaults)),
                              settingsOf(configurationProperties, keyOf(configurationDefaults)),
                              valueOf(configurationDefaults).object)
            /\ overrideIdentifiers' =
                overrideIdentifiers \cup
                    {overrideIdentifiersFromKey(keyOf(configurationDefaults))[i] :
                        i \in 1..Len(overrideIdentifiersFromKey(keyOf(configurationDefaults)))}]_vars

\* "[ts]" has been given defaults three times: its property has the setting
\* "c" with "a" of one registration and "b" of another, and the setting "d",
\* and "ts" is a registered override identifier.
C31_Witness ==
    /\ hasProperty(configurationProperties, kTS)
    /\ DOMAIN settingsOf(configurationProperties, kTS) = {kC, kD}
    /\ isObject(settingsOf(configurationProperties, kTS)[kC])
    /\ DOMAIN settingsOf(configurationProperties, kTS)[kC].object = {kA, kB}
    /\ settingsOf(configurationProperties, kTS)[kC].object[kA] = Scalar(2)
    /\ settingsOf(configurationProperties, kTS)[kD] = Scalar(8)
    /\ idTS \in overrideIdentifiers


----------------------------------------------------------------------------
(* Scopes and restricted flags of registered properties *)

\* A property that declares a scope and a restricted flag, or neither.
ScopedProperty(key, scope, restricted) ==
    [Property(key, "number", Scalar(1), scope, Absent, Absent) EXCEPT !.restricted = restricted]

\* A node that declares a scope and restrictedProperties.
ScopedNode(properties, allOf, scope, restrictedProperties) ==
    [Node(properties, allOf) EXCEPT !.scope = scope, !.restrictedProperties = restrictedProperties]

\* The innermost node: "d" and the override-pattern key "[ts]", which
\* declares a scope.
InnerNode ==
    ScopedNode(<<ScopedProperty(kD, Absent, Absent), ScopedProperty(kTS, "RESOURCE", Absent)>>,
               <<>>, Absent, <<>>)

\* The node between: "c", and restrictedProperties of its own.
MiddleNodes ==
    {ScopedNode(<<ScopedProperty(kC, Absent, restricted)>>, <<InnerNode>>, scope, <<kD>>) :
        scope \in {Absent, "MACHINE"}, restricted \in {Absent, "false"}}

\* The contributions: a top-level node with "a.b" and the nodes above
\* nested in its allOf.
ScopedBatches ==
    {<<ScopedNode(<<ScopedProperty(kAB, own, Absent)>>, <<middle>>, scope, restrictedProperties)>> :
        own \in {Absent, "RESOURCE"}, middle \in MiddleNodes,
        scope \in {Absent, "APPLICATION"}, restrictedProperties \in {<<>>, <<kC, kAB>>}}

\* configurationRegistry.registerConfigurations(configurations, validate)
RegisterConfigurationsValidate(configurations, validate) ==
    /\ ~reloaded
    /\ submitted' = [configurations |-> configurations, validate |-> validate]
    /\ RegistryBecomes(registerConfigurations(configurationRegistry, configurations, validate))
    /\ UNCHANGED <<defaultConfigurationModel, defaultOverrides, reloaded,
                   confVars, mergeVars, eventVars, parserVars, editVars, heapVars>>

RegisterConfigurationsValidateStep ==
    \E configurations \in ScopedBatches, validate \in BOOLEAN :
        RegisterConfigurationsValidate(configurations, validate)

NextScope == RegisterConfigurationsValidateStep

SpecScope == InitDefaults /\ [][NextScope]_vars

----------------------------------------------------------------------------
(* Claims on scopes, under SpecScope *)

\* The properties a node and the nodes nested in it declare, each with the
\* scopes declared by the nodes around it, the nearest first.
RECURSIVE declaredIn(_, _)
declaredIn(node, outer) ==
    {[property |-> node.properties[i], scopes |-> <<node.scope>> \o outer] : i \in 1..Len(node.properties)}
        \cup UNION {declaredIn(node.allOf[j], <<node.scope>> \o outer) : j \in 1..Len(node.allOf)}

\* The first scope declared, WINDOW when none is.
RECURSIVE nearestScope(_)
nearestScope(scopes) ==
    IF scopes = <<>> THEN "WINDOW"
    ELSE IF Head(scopes) # Absent THEN Head(scopes)
    ELSE nearestScope(Tail(scopes))

effectiveScope(declared) ==
    IF OVERRIDE_PROPERTY_REGEX_test(declared.property.key) THEN Absent
    ELSE IF declared.property.scope # Absent THEN declared.property.scope
    ELSE nearestScope(declared.scopes)

effectiveRestricted(declared, restrictedProperties) ==
    IF declared.property.restricted # Absent THEN declared.property.restricted
    ELSE IF inSeq(restrictedProperties, declared.property.key) THEN "true"
    ELSE "false"

\* The property is registered with the scope and the flag.
registeredAs(properties, declared, restrictedProperties) ==
    /\ hasProperty(properties, declared.property.key)
    /\ getProperty(properties, declared.property.key).scope = effectiveScope(declared)
    /\ \/ OVERRIDE_PROPERTY_REGEX_test(declared.property.key)
       \/ getProperty(properties, declared.property.key).restricted
            = effectiveRestricted(declared, restrictedProperties)

\* C32: a property that registerConfigurations registers has its own
\* declared scope, otherwise the scope declared by the nearest node around it
\* along the allOf nesting, otherwise WINDOW; an override-pattern key has no
\* scope; the restricted flag is the declared one, otherwise whether the
\* restrictedProperties of the top-level node list the key.
C32_EffectiveScope ==
    [][\A configurations \in ScopedBatches, validate \in BOOLEAN :
        RegisterConfigurationsValidate(configurations, validate) =>
            \A declared \in declaredIn(configurations[1], <<>>) :
                \/ validate /\ validateProperty(configurationRegistry, declared.property.key,
                                                declared.property)
                \/ registeredAs(configurationProperties', declared,
                                configurations[1].restrictedProperties)]_vars

\* "d" has the scope of the node between (not of the top-level node, which
\* declares one too), "a.b" its own, "[ts]" none although it declares one,
\* and "c" is restricted by the list of the top-level node.
C32_Witness ==
    /\ "configurations" \in DOMAIN submitted
    /\ submitted.configurations[1].scope = "APPLICATION"
    /\ hasProperty(configurationProperties, kD)
    /\ getProperty(configurationProperties, kD).scope = "MACHINE"
    /\ getProperty(configurationProperties, kD).restricted = "false"
    /\ hasProperty(configurationProperties, kAB)
    /\ getProperty(configurationProperties, kAB).scope = "RESOURCE"
    /\ hasProperty(configurationProperties, kTS)
    /\ getProperty(configurationProperties, kTS).scope = Absent
    /\ hasProperty(configurationProperties, kC)
    /\ getProperty(configurationProperties, kC).restricted = "true"
    /\ getProperty(configurationProperties, kC).scope = "MACHINE"


----------------------------------------------------------------------------
(* Registrations after the defaults have been loaded *)

\* configurationRegistry.registerConfigurations(configurations) once
\* DefaultConfiguration.reload() has run. _onDidUpdateConfiguration fires;
\* the DefaultConfiguration holds no listener on it, its model stays.
RegisterConfigurationsLoaded(configurations) ==
    /\ reloaded
    /\ submitted' = [configurations |-> configurations]
    /\ RegistryBecomes(registerConfigurations(configurationRegistry, configurations, TRUE))
    /\ UNCHANGED <<defaultConfigurationModel, defaultOverrides, reloaded,
                   confVars, mergeVars, eventVars, parserVars, editVars, heapVars>>

\* configurationRegistry.registerDefaultConfigurations(configurationDefaults)
\* once DefaultConfiguration.reload() has run.
RegisterDefaultConfigurationsLoaded(configurationDefaults) ==
    /\ reloaded
    /\ submitted' = [configurationDefaults |-> configurationDefaults]
    /\ RegistryBecomes(registerDefaultConfigurations(configurationRegistry, configurationDefaults))
    /\ UNCHANGED <<defaultConfigurationModel, defaultOverrides, reloaded,
                   confVars, mergeVars, eventVars, parserVars, editVars, heapVars>>

RegisterConfigurationsLoadedStep ==
    \E configurations \in Batches : RegisterConfigurationsLoaded(configurations)

RegisterDefaultConfigurationsLoadedStep ==
    \E configurationDefaults \in DefaultsBatches :
        RegisterDefaultConfigurationsLoaded(configurationDefaults)

NextLoaded ==
    \/ RegisterConfigurationsStep
    \/ Reload
    \/ RegisterConfigurationsLoadedStep
    \/ RegisterDefaultConfigurationsLoadedStep

SpecLoaded == InitRegistration /\ [][NextLoaded]_vars

----------------------------------------------------------------------------
(* Claims on the loaded defaults, under SpecLoaded *)

\* C33: once loaded, the defaults Model follows the registry: after every
\* registerConfigurations or registerDefaultConfigurations call the Model
\* resolves each registered key to its registered default (the default the
\* subclass hook gives it, if any); keys that are dotted prefixes of one
\* another are left aside.
C33_DefaultsFollowRegistry ==
    reloaded =>
        \A i \in 1..Len(configurationProperties) :
            (\A j \in 1..Len(configurationProperties) :
                ~nested(configurationProperties[i].key, configurationProperties[j].key))
            => getValue(defaultsOnly(defaultConfigurationModel), configurationProperties[i].key,
                        NoResource, NoIdentifier, NoWorkspace) = expectedDefault(i)


----------------------------------------------------------------------------
(* Defaults of properties that disallow configuration defaults *)

\* "c" registered with disallowConfigurationDefault: of type object or
\* number, with and without a declared default.
DisallowProperties ==
    {[Property(kC, type, default, Absent, Absent, Absent) EXCEPT !.disallowConfigurationDefault = TRUE] :
        type \in {"object", "number"}, default \in {Undefined, Scalar(0)}}

RegisterDisallowPropertyStep ==
    \E property \in DisallowProperties : RegisterConfigurations(<<Node(<<property>>, <<>>)>>)

NextDisallow == RegisterPlainDefaultsStep \/ RegisterDisallowPropertyStep

SpecDisallow == InitDefaults /\ [][NextDisallow]_vars

----------------------------------------------------------------------------
(* Claims on disallowConfigurationDefault, under SpecDisallow *)

\* The default the property declares, or that of its type.
declaredDefault(property) ==
    IF property.defaultDefaultValue # Undefined THEN property.defaultDefaultValue
    ELSE getDefaultValue(property.type)

\* The default override held for the key has no source at all: neither an
\* IExtensionInfo nor an entry of the Map.
withoutAnySource(defaultOverride) ==
    \/ defaultOverride.source = Sourced(Absent)
    \/ isSourceMap(defaultOverride.source) /\ defaultOverride.source.map = <<>>

\* The default override held for the key comes from a source as a whole.
fromSource(defaultOverride) ==
    ~isSourceMap(defaultOverride.source) /\ defaultOverride.source # Sourced(Absent)

\* C34: a property registered with disallowConfigurationDefault never has a
\* default override that comes from a source as its default, whether the
\* override was registered before or after the property, and then has its
\* declared default (or that of its type); a default override without any
\* source is its default.
C34_DisallowedDefaultsFromSources ==
    \A i \in 1..Len(configurationProperties) :
        (/\ configurationProperties[i].disallowConfigurationDefault
         /\ configurationProperties[i].key \in DOMAIN configurationDefaultsOverrides)
        => /\ fromSource(configurationDefaultsOverrides[configurationProperties[i].key])
                => configurationProperties[i].default = declaredDefault(configurationProperties[i])
           /\ withoutAnySource(configurationDefaultsOverrides[configurationProperties[i].key])
                => configurationProperties[i].default
                    = configurationDefaultsOverrides[configurationProperties[i].key].value

\* A default override that comes from a source as a whole is not the default
\* of a property that disallows configuration defaults.
SourcedOverrideNotApplied ==
    \A i \in 1..Len(configurationProperties) :
        (/\ configurationProperties[i].disallowConfigurationDefault
         /\ configurationProperties[i].key \in DOMAIN configurationDefaultsOverrides
         /\ fromSource(configurationDefaultsOverrides[configurationProperties[i].key]))
        => configurationProperties[i].default = declaredDefault(configurationProperties[i])


----------------------------------------------------------------------------
(* Claims on the cache of projections, under SpecHeap *)

\* The projection that base.override(identifier) returns from the cache
\* resolves as the projection of what base holds after the step.
cachedIsCurrent(base) ==
    modelAt(heap', heapProjection.model).contents
        = override(modelAt(heap', heapModel(base)), heapProjection.identifier).contents

\* C35: the cache of projections of a Model is never stale: when
\* override(identifier) has been called on a Model and the Model is then
\* changed in place by setValue or removeValue, the projection that
\* override(identifier) returns afterwards resolves every key as the
\* projection computed from what the Model holds now.
C35_OverrideCacheNeverStale ==
    [][\A base \in {"this", "merged"} :
        (heapProjection # Null /\ heapProjection.base = base /\ HeapEdit(base))
            => cachedIsCurrent(base)]_vars


----------------------------------------------------------------------------
(* Claims on override sections across the layers, under Spec *)

\* The layers a query reads, lowest first: defaults < application < user <
\* workspace < folder of the resource < memory(global) < memory of the resource.
queryLayers(resource, workspace) ==
    <<defaultConfiguration, applicationConfiguration, getUserConfiguration(this),
      workspaceConfiguration>>
        \o (IF workspace # NoWorkspace /\ resource # NoResource
                /\ getFolder(workspace, resource) \in DOMAIN folderConfigurations
              THEN <<folderConfigurations[getFolder(workspace, resource)]>>
              ELSE <<>>)
        \o <<memoryConfiguration>>
        \o resourceLayer(resource, workspace)

\* The values the sections of the layer that list the identifier give to k.
sectionValues(layer, identifier, k) ==
    {getConfigurationValue(layer.overrides[i].contents, k) :
        i \in listingSections(layer, identifier)} \ {Undefined}

\* The layers with a section for the identifier that defines k.
sectionDefiners(layers, identifier, k) ==
    {i \in 1..Len(layers) : sectionValues(layers[i], identifier, k) # {}}

----------------------------------------------------------------------------
(* Claims on the order of registration, under SpecDefaults *)

\* "c" as it may be registered: an object or a number, with and without a
\* declared default.
OrderProperties ==
    {Property(kC, "object", default, Absent, Absent, Absent) :
        default \in {Undefined, Object(kD :> Scalar(0))}}
    \cup {Property(kC, "number", default, Absent, Absent, Absent) :
            default \in {Undefined, Scalar(0)}}

\* registerDefaultConfigurations(configurationDefaults), then
\* registerConfigurations of the property: the registered property.
defaultsThenProperty(reg, configurationDefaults, property) ==
    getProperty(
        registerConfigurations(registerDefaultConfigurations(reg, configurationDefaults).reg,
                               <<Node(<<property>>, <<>>)>>, TRUE).reg.configurationProperties,
        property.key)

\* registerConfigurations of the property, then
\* registerDefaultConfigurations(configurationDefaults): the registered property.
propertyThenDefaults(reg, configurationDefaults, property) ==
    getProperty(
        registerDefaultConfigurations(
            registerConfigurations(reg, <<Node(<<property>>, <<>>)>>, TRUE).reg,
            configurationDefaults).reg.configurationProperties,
        property.key)

\* C37: the default of a key does not depend on the order of registration:
\* in a registry where "c" is not registered, registering a default override
\* for "c" (a scalar or an object) before the property leaves the same
\* default on the property as registering it after.
C37_DefaultIndependentOfOrder ==
    ~hasProperty(configurationProperties, kC) =>
        \A property \in OrderProperties, configurationDefaults \in PlainDefaults :
            defaultsThenProperty(configurationRegistry, configurationDefaults, property).default
                = propertyThenDefaults(configurationRegistry, configurationDefaults, property).default


----------------------------------------------------------------------------
(* inspect on the Models that are changed in place *)

\* The sections inspected: "a", which holds an object in some of the Models,
\* and "a.b" and "c", which hold none.
InspectSections == {kA, kAB, kC}

\* target.inspect(section).value is read: rawConfiguration is the Model
\* itself, as it has no raw documents, and the value that getValue(section)
\* returns from the contents is frozen.
HeapInspect(target, section) ==
    /\ target \in HeapTargets
    /\ heapFrozen' = freeze(heap, heapFrozen,
                            heapAccessSetting(heap, Ref(heapModel(target).contents), split(section, ".")))
    /\ heapInspected' = heapInspected \cup {[target |-> target, section |-> section]}
    /\ UNCHANGED <<heap, heapOperands, heapMerged, heapProjection, heapEdits,
                   confVars, mergeVars, eventVars, registryVars, parserVars, editVars>>

HeapInspectStep ==
    \E target \in {"this", "other"}, section \in InspectSections : HeapInspect(target, section)

NextInspect == HeapInspectStep \/ HeapSetValueStep \/ HeapRemoveValueStep

SpecInspect == InitHeap /\ [][NextInspect]_vars

----------------------------------------------------------------------------
(* Claims on inspect, under SpecInspect *)

\* inspect(section).value of the Model has been read for a section that is
\* the key or that the key is below.
inspectedAbove(target, key) ==
    \E read \in heapInspected : read.target = target /\ keyUnderSection(key, read.section)

\* After the step the Model returns the value for the key and lists the key.
written(target, key, value) ==
    /\ modelGetValue(modelAt(heap', heapModel(target)), key) = value
    /\ inSeq(modelAt(heap', heapModel(target)).keys, key)

\* C38: reading the result of inspect does not change what the Model does
\* afterwards: after inspect(section) of a Model has been read, setValue(k, v)
\* on the Model for a key k that is the section or below it makes getValue(k)
\* return v and has k among the keys.
C38_InspectLeavesModelWritable ==
    [][\A target \in {"this", "other"}, input \in HeapInputs :
        (inspectedAbove(target, input[1]) /\ HeapSetValue(target, input[1], input[2]))
            => written(target, input[1], input[2])]_vars

\* A Model of which no object is frozen returns the value after setValue and
\* lists the key.
WritableUnlessFrozen ==
    [][\A target \in {"this", "other"}, input \in HeapInputs :
        (heapFrozen = {} /\ HeapSetValue(target, input[1], input[2]))
            => written(target, input[1], input[2])]_vars


----------------------------------------------------------------------------
(* Claims on toData and parse without memory, under Spec *)

\* The global memory layer and the memory layer of every resource are empty.
memoryEmpty ==
    /\ isEmpty(memoryConfiguration)
    /\ \A resource \in DOMAIN memoryConfigurationByResource :
            isEmpty(memoryConfigurationByResource[resource])

\* The layers of the parsed Configuration are those of c, the user layer
\* the merged one.
carriedOver(parsed, c) ==
    /\ parsed.defaultConfiguration = c.defaultConfiguration
    /\ parsed.policyConfiguration = c.policyConfiguration
    /\ parsed.applicationConfiguration = c.applicationConfiguration
    /\ parsed.workspaceConfiguration = c.workspaceConfiguration
    /\ parsed.folderConfigurations = c.folderConfigurations
    /\ parsed.localUserConfiguration = getUserConfiguration(c)
    /\ isEmpty(parsed.remoteUserConfiguration)

\* C39: for a Configuration whose memory layers are empty,
\* parse(toData()) resolves every key, for every resource, folder and
\* override identifier, as the Configuration does; the defaults, policy,
\* application, workspace and folder layers are carried over and the user
\* layer merged from local and remote is the local user layer of the result.
C39_RoundTripWithoutMemory ==
    memoryEmpty =>
        /\ sameAnswers(parse(toData(this)), this)
        /\ carriedOver(parse(toData(this)), this)

\* The same with the Configuration newly constructed from its layer Models,
\* which has no consolidated Model cached.
RoundTripWithoutMemoryAndCaches ==
    memoryEmpty =>
        /\ sameAnswers(parse(toData(this)), fresh)
        /\ carriedOver(parse(toData(this)), this)

====
